---------------------------- MODULE Spec2Model ----------------------------
(***************************************************************************)
(* A model of the ldml-api workspace: the language-tag value type and its  *)
(* parser (crate language-tag), and the langtags database (crate langtags).*)
(*                                                                         *)
(* Text is modelled with TLA+ strings; a Rust byte offset i is the TLA+    *)
(* position i + 1.  Option<T> is a sequence of length 0 (None) or 1 (Some).*)
(***************************************************************************)
EXTENDS Integers, Sequences, FiniteSets, TLC

-----------------------------------------------------------------------------
(* Characters and strings (std::str and the ASCII character classes).      *)

\* The ASCII characters the model uses, in byte order.
Ascii == " -/0123456789ABCDEFGHIJKLMNOPQRSTUVWXYZ_abcdefghijklmnopqrstuvwxyz"
UpperChars == "ABCDEFGHIJKLMNOPQRSTUVWXYZ"
LowerChars == "abcdefghijklmnopqrstuvwxyz"
Chars(str) == {SubSeq(str, i, i) : i \in 1..Len(str)}

\* char::is_ascii_digit, is_ascii_alphabetic, is_ascii_alphanumeric.
Digits == Chars("0123456789")
Letters == Chars(UpperChars) \cup Chars(LowerChars)
IsDigit(c) == c \in Digits
IsAlpha(c) == c \in Letters
IsAlnum(c) == c \in Letters \cup Digits

\* The position of character c in string str (0 when absent).
IndexIn(str, c) ==
    IF \E i \in 1..Len(str) : SubSeq(str, i, i) = c
    THEN CHOOSE i \in 1..Len(str) : SubSeq(str, i, i) = c ELSE 0

\* u8::to_ascii_lowercase on every character of the model.
LowerOf ==
    [c \in Chars(Ascii) |->
        IF IndexIn(UpperChars, c) > 0
        THEN SubSeq(LowerChars, IndexIn(UpperChars, c), IndexIn(UpperChars, c))
        ELSE c]
LowerChar(c) == LowerOf[c]

RECURSIVE to_ascii_lowercase(_)
to_ascii_lowercase(s) ==
    IF s = "" THEN ""
    ELSE LowerChar(SubSeq(s, 1, 1)) \o to_ascii_lowercase(SubSeq(s, 2, Len(s)))

eq_ignore_ascii_case(a, b) == to_ascii_lowercase(a) = to_ascii_lowercase(b)

\* s[a..b], s[a..] and the character at byte offset i.
Slice(s, a, b) == SubSeq(s, a + 1, b)
SliceFrom(s, a) == SubSeq(s, a + 1, Len(s))
CharAt(s, i) == SubSeq(s, i + 1, i + 1)

\* String::replace_range(a..b, r) and String::insert_str(at, r).
replace_range(s, a, b, r) == Slice(s, 0, a) \o r \o SliceFrom(s, b)
insert_str(s, at, r) == replace_range(s, at, at, r)

\* String::replace_range(a..b, _) and String::insert(at, _) panic when the
\* range is reversed or reaches past the end (all text here is ASCII, so
\* every offset is a character boundary).
replace_range_panics(s, a, b) == a > b \/ b > Len(s)
insert_panics(s, at) == at > Len(s)

\* <str as Ord>::cmp: byte-wise lexicographic order, a proper prefix first.
RECURSIVE StrLess(_, _)
StrLess(a, b) ==
    IF b = "" THEN FALSE
    ELSE IF a = "" THEN TRUE
    ELSE LET ca == IndexIn(Ascii, SubSeq(a, 1, 1))
             cb == IndexIn(Ascii, SubSeq(b, 1, 1))
         IN IF ca # cb THEN ca < cb
            ELSE StrLess(SubSeq(a, 2, Len(a)), SubSeq(b, 2, Len(b)))

\* [&str]::sort_unstable: the sorted permutation (equal strings are identical).
RECURSIVE InsertSorted(_, _)
InsertSorted(seq, x) ==
    IF seq = <<>> THEN <<x>>
    ELSE IF StrLess(x, Head(seq)) THEN <<x>> \o seq
    ELSE <<Head(seq)>> \o InsertSorted(Tail(seq), x)

RECURSIVE sort_unstable(_)
sort_unstable(seq) ==
    IF seq = <<>> THEN <<>>
    ELSE InsertSorted(sort_unstable(Tail(seq)), Head(seq))

\* [&str]::join(sep).
RECURSIVE join(_, _)
join(seq, sep) ==
    IF seq = <<>> THEN ""
    ELSE IF Len(seq) = 1 THEN seq[1]
    ELSE seq[1] \o sep \o join(Tail(seq), sep)

\* str::split('-'): always at least one piece.
RECURSIVE SplitFrom(_, _, _)
SplitFrom(s, start, i) ==
    IF i >= Len(s) THEN <<SliceFrom(s, start)>>
    ELSE IF CharAt(s, i) = "-"
         THEN <<Slice(s, start, i)>> \o SplitFrom(s, i + 1, i + 1)
         ELSE SplitFrom(s, start, i + 1)

\* str::split_terminator('-'): as split, with a final empty piece dropped.
DropLastEmpty(parts) ==
    IF parts[Len(parts)] = "" THEN SubSeq(parts, 1, Len(parts) - 1) ELSE parts
split_terminator(s) == DropLastEmpty(SplitFrom(s, 0, 0))

\* str::replace('-', "_").
RECURSIVE replace_dash(_)
replace_dash(s) ==
    IF s = "" THEN ""
    ELSE (IF SubSeq(s, 1, 1) = "-" THEN "_" ELSE SubSeq(s, 1, 1))
         \o replace_dash(SubSeq(s, 2, Len(s)))

None == <<>>
Some(x) == <<x>>

\* u8 arithmetic: `as u8` and wrapping_add_signed both reduce modulo 2^8.
U8(n) == n % 256

-----------------------------------------------------------------------------
(* language-tag: the Tag value type (tag.rs).                              *)

\* struct Offsets: the end offset of each component in buf.
Offsets(l, s, r, v, e) ==
    [lang |-> l, script |-> s, region |-> r, variants |-> v, extensions |-> e]

\* struct Tag { buf, end }.
Tag(buf, end) == [buf |-> buf, end |-> end]

\* Offsets::adjust_lang .. adjust_extensions: each shifts its own offset and
\* every later one by delta, wrapping in 8 bits.
adjust_extensions(end, delta) ==
    [end EXCEPT !.extensions = U8(@ + delta)]
adjust_variants(end, delta) ==
    adjust_extensions([end EXCEPT !.variants = U8(@ + delta)], delta)
adjust_region(end, delta) ==
    adjust_variants([end EXCEPT !.region = U8(@ + delta)], delta)
adjust_script(end, delta) ==
    adjust_region([end EXCEPT !.script = U8(@ + delta)], delta)
adjust_lang(end, delta) ==
    adjust_script([end EXCEPT !.lang = U8(@ + delta)], delta)

\* A component_range! that leaves the separator in place when the value is
\* empty.
component_replace_keeping_separator(buf, start, stop, comp) ==
    IF start >= stop
    THEN IF comp = "" THEN buf
         ELSE replace_range(insert_str(buf, start, "-"), start + 1, stop + 1, comp)
    ELSE replace_range(buf, start + 1, stop, comp)

\* component_range!(self, comp) followed by buf.replace_range(range, comp):
\* [start, stop) is _component_range!.  A non-empty value written into an
\* empty range first inserts '-'; a non-empty value written into a non-empty
\* range keeps the byte at start; an empty value removes the whole range.
component_replace(buf, start, stop, comp) ==
    IF comp = "" THEN replace_range(buf, start, stop, "")
    ELSE IF start >= stop
         THEN replace_range(insert_str(buf, start, "-"), start + 1, stop + 1, comp)
         ELSE replace_range(buf, start + 1, stop, comp)

\* component_range! and replace_range panic: the insert of '-' into an empty
\* range, then the replace_range.
component_replace_panics(buf, start, stop, comp) ==
    IF comp = "" THEN replace_range_panics(buf, start, stop)
    ELSE IF start >= stop
         THEN insert_panics(buf, start)
              \/ replace_range_panics(insert_str(buf, start, "-"), start + 1, stop + 1)
         ELSE replace_range_panics(buf, start + 1, stop)

\* Tag::default().
default == Tag("", Offsets(0, 0, 0, 0, 0))

\* Tag::with_lang(lang).
with_lang(lang) ==
    LET len == U8(Len(lang)) IN Tag(lang, Offsets(len, len, len, len, len))

\* Tag::privateuse(private).
privateuse(private) == Tag(private, Offsets(0, 0, 0, 0, 0))

\* The reduce of Tag::new over the lengths of a list of subtags: their sum,
\* one separator between neighbours and one in front; 0 for no subtag.
RECURSIVE SpanLen(_)
SpanLen(lens) ==
    IF lens = <<>> THEN 0 ELSE Head(lens) + 1 + SpanLen(Tail(lens))

\* An Option<NonZeroUsize> as the length it adds with its separator.
OptSpan(optlen) == IF optlen = None THEN 0 ELSE optlen[1] + 1

\* Tag::new as it would be if the region's separator were not counted.
Tag_new_region_without_dash(full, lang, script, region, variants, extensions, private) ==
    IF lang = 0 /\ private # None THEN privateuse(full)
    ELSE LET l == U8(lang)
             s == U8(l + U8(OptSpan(script)))
             r == U8(s + U8(IF region = None THEN 0 ELSE region[1]))
             v == U8(r + U8(SpanLen(variants)))
             e == U8(v + U8(SpanLen(extensions)))
         IN Tag(full, Offsets(l, s, r, v, e))

\* Tag::new(full, lang, script, region, variants, extensions, private): the
\* arguments after full are lengths (Option lengths are None or Some(n > 0)).
Tag_new(full, lang, script, region, variants, extensions, private) ==
    IF lang = 0 /\ private # None THEN privateuse(full)
    ELSE LET l == U8(lang)
             s == U8(l + U8(OptSpan(script)))
             r == U8(s + U8(OptSpan(region)))
             v == U8(r + U8(SpanLen(variants)))
             e == U8(v + U8(SpanLen(extensions)))
         IN Tag(full, Offsets(l, s, r, v, e))

\* r.len().try_into().ok() on an Option<&str>: None for None and for Some("").
NonZeroLen(opt) ==
    IF opt = None \/ opt[1] = "" THEN None ELSE Some(Len(opt[1]))

\* The scan of Tag::from_parts: an extension whose "n-" prefix equals that of
\* its predecessor is written by its name alone.
RECURSIVE ElideScan(_, _)
ElideScan(exts, ns) ==
    IF exts = <<>> THEN <<>>
    ELSE LET e == Head(exts)
             p0 == Slice(e, 0, 2)
         IN IF p0 = ns THEN <<SliceFrom(e, 2)>> \o ElideScan(Tail(exts), ns)
            ELSE <<e>> \o ElideScan(Tail(exts), p0)

\* The pushes of Tag::from_parts: '-' and the subtag, for each subtag.
RECURSIVE PushAll(_, _)
PushAll(full, subtags) ==
    IF subtags = <<>> THEN full
    ELSE PushAll(full \o "-" \o Head(subtags), Tail(subtags))

\* Tag::from_parts(lang, script, region, variants, extensions, private);
\* script, region and private are Options, variants and extensions lists.
from_parts(lang, script, region, variants, extensions, private) ==
    IF lang = "" /\ private # None THEN privateuse(private[1])
    ELSE LET elided == ElideScan(extensions, "")
             full == PushAll(lang, script \o region \o variants \o elided \o private)
         IN Tag_new(full, Len(lang), NonZeroLen(script), NonZeroLen(region),
                    [i \in 1..Len(variants) |-> Len(variants[i])],
                    [i \in 1..Len(elided) |-> Len(elided[i])],
                    NonZeroLen(private))

\* Tag::lang.
lang(t) == Slice(t.buf, 0, t.end.lang)

\* The Option accessors: an empty slice is None, otherwise the slice without
\* its first byte.
OptField(s) == IF s = "" THEN None ELSE Some(SliceFrom(s, 1))

\* Tag::script, Tag::region, Tag::private.
script(t) == OptField(Slice(t.buf, t.end.lang, t.end.script))
region(t) == OptField(Slice(t.buf, t.end.script, t.end.region))
private(t) == OptField(SliceFrom(t.buf, t.end.extensions))

\* Tag::variants, collected: Variants::new(..).collect().
variants(t) ==
    LET a == t.end.region
        b == t.end.variants
    IN split_terminator(Slice(t.buf, IF a < b THEN a + 1 ELSE a, b))

\* struct ExtensionRef { name, namespace }.
ExtensionRef(ns, name) == [namespace |-> ns, name |-> name]

\* Extentions::next, iterated to the end: a subtag of length 1 sets the
\* current namespace and the subtag after it is the name.  The namespace
\* starts as char::default(), written "" here.
RECURSIVE ExtIter(_, _)
ExtIter(subtags, curr_ns) ==
    IF subtags = <<>> THEN <<>>
    ELSE LET n == Head(subtags)
         IN IF Len(n) = 1
            THEN IF Tail(subtags) = <<>> THEN <<>>
                 ELSE <<ExtensionRef(n, subtags[2])>>
                      \o ExtIter(Tail(Tail(subtags)), n)
            ELSE <<ExtensionRef(curr_ns, n)>> \o ExtIter(Tail(subtags), curr_ns)

\* Tag::extensions, collected.
extensions(t) ==
    LET a == t.end.variants
        b == t.end.extensions
    IN ExtIter(split_terminator(Slice(t.buf, IF a < b THEN a + 1 ELSE a, b)), "")

\* Tag::has_variants, Tag::has_extensions, Tag::is_privateuse.
has_variants(t) == t.end.variants # t.end.region
has_extensions(t) == t.end.extensions # t.end.variants
is_privateuse(t) == t.end.extensions = 0 /\ t.buf # ""

\* Display for ExtensionRef: "n-name".
ExtString(e) == e.namespace \o "-" \o e.name

\* to_string as it would be if the private part were not written.
to_string_without_private(t) == Slice(t.buf, 0, t.end.extensions)

\* impl Display for Tag (to_string): the text.
to_string(t) == t.buf

\* impl PartialEq for Tag: the texts, ignoring ASCII case.
TagEq(a, b) == eq_ignore_ascii_case(a.buf, b.buf)

\* impl Hash for Tag: the bytes written to the Hasher.
hash(t) == to_ascii_lowercase(t.buf)

\* <str as Ord>::cmp and <Option<&str> as Ord>::cmp (None before Some).
str_cmp(a, b) ==
    IF a = b THEN "Equal" ELSE IF StrLess(a, b) THEN "Less" ELSE "Greater"
option_cmp(a, b) ==
    IF a = None THEN (IF b = None THEN "Equal" ELSE "Less")
    ELSE IF b = None THEN "Greater" ELSE str_cmp(a[1], b[1])

\* Ordering::then_with.
then_with(first, second) == IF first = "Equal" THEN second ELSE first

\* A comparison that skips make_ascii_lowercase.
Tag_cmp_case_sensitive(a, b) ==
    then_with(then_with(str_cmp(lang(a), lang(b)),
                        option_cmp(script(a), script(b))),
              option_cmp(region(a), region(b)))

\* impl Ord for Tag: both texts lower-cased, then lang, script, region.
Tag_cmp(a, b) ==
    LET Cmp(this, other) ==
            then_with(then_with(str_cmp(lang(this), lang(other)),
                                option_cmp(script(this), script(other))),
                      option_cmp(region(this), region(other)))
    IN Cmp(Tag(to_ascii_lowercase(a.buf), a.end),
           Tag(to_ascii_lowercase(b.buf), b.end))

-----------------------------------------------------------------------------
(* language-tag: the Tag mutators (tag.rs).                                *)

\* Tag::set_lang.
set_lang(t, l) ==
    LET buf == replace_range(t.buf, 0, t.end.lang, l)
    IN Tag(buf, adjust_lang(t.end, Len(buf) - Len(t.buf)))

\* Tag::set_script.
set_script(t, s) ==
    LET buf == component_replace(t.buf, t.end.lang, t.end.script, s)
    IN Tag(buf, adjust_script(t.end, Len(buf) - Len(t.buf)))

\* Tag::set_region.
set_region(t, r) ==
    LET buf == component_replace(t.buf, t.end.script, t.end.region, r)
    IN Tag(buf, adjust_region(t.end, Len(buf) - Len(t.buf)))

\* Tag::set_variants: the list joined with '-'.
set_variants(t, vs) ==
    LET buf == component_replace(t.buf, t.end.region, t.end.variants, join(vs, "-"))
    IN Tag(buf, adjust_variants(t.end, Len(buf) - Len(t.buf)))

\* Tag::assert_extension panics (TRUE) unless the subtag is longer than 4
\* bytes and its second byte is '-'.
assert_extension_panics(subtag) ==
    Len(subtag) <= 4 \/ CharAt(subtag, 1) # "-"

\* The loop of Tag::set_extensions over the sorted list: an entry whose "n-"
\* prefix equals the current namespace is replaced by its name.  The
\* namespace starts as "\0", written "" here.
RECURSIVE ElideSorted(_, _)
ElideSorted(exts, ns) ==
    IF exts = <<>> THEN <<>>
    ELSE LET e == Head(exts)
             p0 == Slice(e, 0, 2)
         IN IF p0 = ns THEN <<SliceFrom(e, 2)>> \o ElideSorted(Tail(exts), ns)
            ELSE <<e>> \o ElideSorted(Tail(exts), p0)

\* Tag::set_extensions panics iff some entry fails assert_extension.
set_extensions_panics(exts) ==
    \E i \in 1..Len(exts) : assert_extension_panics(exts[i])

\* Tag::set_extensions (when it does not panic).
set_extensions(t, exts) ==
    LET text == IF exts = <<>> THEN ""
                ELSE join(ElideSorted(sort_unstable(exts), ""), "-")
        buf == component_replace(t.buf, t.end.variants, t.end.extensions, text)
    IN Tag(buf, adjust_extensions(t.end, Len(buf) - Len(t.buf)))

\* Tag::set_private: no offset moves.
set_private(t, p) ==
    Tag(component_replace(t.buf, t.end.extensions, Len(t.buf), p), t.end)

\* Tag::push_variant.
push_variant(t, v) ==
    LET buf == insert_str(insert_str(t.buf, t.end.variants, "-"),
                          t.end.variants + 1, v)
    IN Tag(buf, adjust_variants(t.end, Len(buf) - Len(t.buf)))

\* str::rsplit_once('-'): the byte offset of the last '-' of s, or -1.
RECURSIVE LastDash(_, _)
LastDash(s, i) ==
    IF i < 0 THEN -1
    ELSE IF CharAt(s, i) = "-" THEN i ELSE LastDash(s, i - 1)

\* The value Tag::pop_variant returns.
pop_variant_result(t) ==
    LET seg == Slice(t.buf, t.end.region, t.end.variants)
        d == LastDash(seg, Len(seg) - 1)
    IN IF d < 0 THEN None ELSE Some(SliceFrom(seg, d + 1))

\* Tag::pop_variant: the tag afterwards.
pop_variant(t) ==
    LET popped == pop_variant_result(t)
    IN IF popped = None THEN t
       ELSE LET stop == t.end.variants
                buf == replace_range(t.buf, stop - Len(popped[1]) - 1, stop, "")
            IN Tag(buf, adjust_variants(t.end, Len(buf) - Len(t.buf)))

-----------------------------------------------------------------------------
(* language-tag: single extensions (tag.rs, find_extension and its users). *)

\* elided_extensions.match_indices('-').map(|(off, _)| off + 1): the offset
\* after each '-' of s, in order.
RECURSIVE DashOffsets(_, _)
DashOffsets(s, i) ==
    IF i >= Len(s) THEN <<>>
    ELSE IF CharAt(s, i) = "-" THEN <<i + 1>> \o DashOffsets(s, i + 1)
    ELSE DashOffsets(s, i + 1)

\* offsets.by_ref().find(..): the index in offs of the first offset where the
\* two bytes of s equal ns ("n-"), or 0.
RECURSIVE FindNamespace(_, _, _, _)
FindNamespace(s, offs, ns, k) ==
    IF k > Len(offs) THEN 0
    ELSE IF offs[k] + 2 <= Len(s) /\ Slice(s, offs[k], offs[k] + 2) = ns THEN k
    ELSE FindNamespace(s, offs, ns, k + 1)

\* The scan collecting the names of one namespace: (start, name) pairs up to
\* the first subtag of length 1, which opens the next namespace.
RECURSIVE ScanNames(_, _, _)
ScanNames(s, start, ends) ==
    IF ends = <<>> THEN <<>>
    ELSE LET name == Slice(s, start, Head(ends) - 1)
         IN IF Len(name) = 1 THEN <<>>
            ELSE <<[start |-> start, name |-> name]>>
                 \o ScanNames(s, Head(ends), Tail(ends))

\* [T]::binary_search_by_key(&name, ..) of the standard library: the halving
\* loop, then the final comparison.  The result is [found, index].
RECURSIVE BinaryLoop(_, _, _, _)
BinaryLoop(names, name, base, size) ==
    IF size <= 1 THEN base
    ELSE LET half == size \div 2
             mid == base + half
             greater == StrLess(name, names[mid + 1].name)
         IN BinaryLoop(names, name, IF greater THEN base ELSE mid, size - half)

binary_search(names, name) ==
    LET Compare(base, probe) ==
            IF probe = name THEN [found |-> TRUE, index |-> base]
            ELSE [found |-> FALSE,
                  index |-> base + (IF StrLess(probe, name) THEN 1 ELSE 0)]
        Probe(base) == Compare(base, names[base + 1].name)
    IN IF names = <<>> THEN [found |-> FALSE, index |-> 0]
       ELSE Probe(BinaryLoop(names, name, 0, Len(names)))

\* Tag::find_extension: Ok((offset, text)) is [ok |-> TRUE, ..], the place and
\* text to remove; Err((offset, text)) is [ok |-> FALSE, ..], the place and
\* text to insert.
find_extension(t, extension) ==
    LET p0 == Slice(extension, 0, 2)
        p1 == SliceFrom(extension, 2)
        start == t.end.variants
        absent == [ok |-> FALSE, pos |-> t.end.extensions, ext |-> extension]
        Searched(names, found, i) ==
            IF found
            THEN IF Len(names) = 1
                 THEN [ok |-> TRUE, pos |-> start + names[i + 1].start - 2,
                       ext |-> extension]
                 ELSE [ok |-> TRUE, pos |-> start + names[i + 1].start,
                       ext |-> p1]
            ELSE [ok |-> FALSE,
                  pos |-> start + (IF i = Len(names)
                                   THEN names[i].start + Len(names[i].name)
                                   ELSE names[i + 1].start - 1),
                  ext |-> p1]
        Search(names, found) == Searched(names, found.found, found.index)
        Names(names) == Search(names, binary_search(names, p1))
        Namespace(elided, offs, k) ==
            IF k = 0 \/ k = Len(offs) THEN absent
            ELSE Names(ScanNames(elided, offs[k + 1],
                                 SubSeq(offs, k + 2, Len(offs))
                                 \o <<Len(elided) + 1>>))
        Offs(elided, offs) ==
            Namespace(elided, offs, FindNamespace(elided, offs, p0, 1))
        Elided(elided) == Offs(elided, DashOffsets(elided, 0))
    IN Elided(Slice(t.buf, start, t.end.extensions))

\* Tag::has_extension.
has_extension(t, extension) == find_extension(t, extension).ok

\* Tag::add_extension.
add_extension(t, extension) ==
    LET Grown(buf) == Tag(buf, adjust_extensions(t.end, Len(buf) - Len(t.buf)))
        Insert(f) ==
            IF f.ok THEN t
            ELSE Grown(insert_str(insert_str(t.buf, f.pos, "-"), f.pos + 1, f.ext))
    IN Insert(find_extension(t, extension))

\* Tag::remove_extension: the tag afterwards (it returns find_extension's ok).
remove_extension(t, extension) ==
    LET Shrunk(buf) == Tag(buf, adjust_extensions(t.end, Len(buf) - Len(t.buf)))
        Remove(f) ==
            IF ~f.ok THEN t
            ELSE Shrunk(replace_range(t.buf, f.pos - 1, f.pos + Len(f.ext), ""))
    IN Remove(find_extension(t, extension))

\* find_extension: assert_extension, the slice of the extensions, and the
\* two-byte slice at each offset tried before the namespace is found.
find_extension_panics(t, extension) ==
    LET Tried(elided, offs, k) ==
            \E j \in 1..(IF k = 0 THEN Len(offs) ELSE k - 1) :
                offs[j] + 2 > Len(elided)
        Offs(elided, offs) ==
            Tried(elided, offs, FindNamespace(elided, offs, Slice(extension, 0, 2), 1))
        Elided(elided) == Offs(elided, DashOffsets(elided, 0))
    IN \/ assert_extension_panics(extension)
       \/ replace_range_panics(t.buf, t.end.variants, t.end.extensions)
       \/ Elided(Slice(t.buf, t.end.variants, t.end.extensions))

-----------------------------------------------------------------------------
(* language-tag: the parser (parser.rs).  A parser is applied to the input *)
(* s at byte offset p and yields [ok, pos]: whether it matched and the     *)
(* offset of the rest.                                                     *)

Matched(pos) == [ok |-> TRUE, pos |-> pos]
Failed(p) == [ok |-> FALSE, pos |-> p]

\* take_while_m_n(m, n, cond): the longest run of at most n bytes satisfying
\* cond, given as the set of the characters that do; an error when the run
\* is shorter than m.
take_while_m_n(m, n, cond, s, p) ==
    LET run == CHOOSE k \in 0..n :
                 /\ \A i \in 0..(k - 1) : p + i < Len(s) /\ CharAt(s, p + i) \in cond
                 /\ (k = n \/ p + k >= Len(s) \/ CharAt(s, p + k) \notin cond)
    IN IF run >= m THEN Matched(p + run) ELSE Failed(p)

\* fn alphanums(m, n); the closures letters(l) and digits(l) of langtag.
alphanums(m, n, s, p) == take_while_m_n(m, n, Letters \cup Digits, s, p)
letters(l, s, p) == take_while_m_n(l, l, Letters, s, p)
digits(l, s, p) == take_while_m_n(l, l, Digits, s, p)

\* fn dash.
dash(s, p) == IF p < Len(s) /\ CharAt(s, p) = "-" THEN Matched(p + 1) ELSE Failed(p)

\* fn subtag(parser) = delimited(dash, parser, eot), where eot succeeds when
\* the next byte is not ASCII alphanumeric (or there is none).  r is the
\* outcome of parser after the '-', at offset p + 1.
eot(s, p) == ~(p < Len(s) /\ IsAlnum(CharAt(s, p)))
subtag(r, s, p) ==
    IF dash(s, p).ok /\ r.ok /\ eot(s, r.pos) THEN r ELSE Failed(p)

\* separated_list1(dash, alphanums(min, 8)) after its first element, which
\* ended at p: another element is taken while '-' and an element follow.
RECURSIVE separated_list_rest(_, _, _)
separated_list_rest(min, s, p) ==
    LET Name(d, e) ==
            IF d.ok /\ e.ok THEN separated_list_rest(min, s, e.pos) ELSE Matched(p)
        Dash(d) == Name(d, alphanums(min, 8, s, d.pos))
    IN Dash(dash(s, p))

\* fn extension_form(prefix, min): prefix, '-', and one or more names of min
\* to 8 alphanumerics separated by '-'.  n is the outcome of prefix at p.
extension_form(n, min, s, p) ==
    LET Name(d, e) ==
            IF n.ok /\ d.ok /\ e.ok THEN separated_list_rest(min, s, e.pos)
            ELSE Failed(p)
        Dash(d) == Name(d, alphanums(min, 8, s, d.pos))
    IN Dash(dash(s, n.pos))

\* char('x'), and the singleton of langtag: verify(none_of("xX"), alphanumeric).
char_x(s, p) == IF p < Len(s) /\ CharAt(s, p) = "x" THEN Matched(p + 1) ELSE Failed(p)
singleton(s, p) ==
    IF p < Len(s) /\ CharAt(s, p) \notin {"x", "X"} /\ IsAlnum(CharAt(s, p))
    THEN Matched(p + 1) ELSE Failed(p)

\* fn private = extension_form(char('x'), 1).
private_form(s, p) == extension_form(char_x(s, p), 1, s, p)

\* The closures of langtag.
ident(s, p) ==
    LET Verify(r) == IF r.ok /\ IsDigit(CharAt(s, p)) THEN r ELSE Failed(p)
    IN Verify(alphanums(4, 4, s, p))
extlang_one(s, p) == subtag(letters(3, s, p + 1), s, p)
script_sub(s, p) == subtag(letters(4, s, p + 1), s, p)
alt2(first, second) == IF first.ok THEN first ELSE second
region_sub(s, p) ==
    subtag(alt2(letters(2, s, p + 1), digits(3, s, p + 1)), s, p)
variant_sub(s, p) ==
    subtag(alt2(ident(s, p + 1), alphanums(5, 8, s, p + 1)), s, p)
extension_sub(s, p) ==
    subtag(extension_form(singleton(s, p + 1), 2, s, p + 1), s, p)
private_sub(s, p) == subtag(private_form(s, p + 1), s, p)

\* many_m_n(1, 3, subtag(letters(3))): the offset after up to `left`
\* ext-lang subtags starting at p.
RECURSIVE extlang_many(_, _, _)
extlang_many(s, p, left) ==
    LET More(r) == IF left > 0 /\ r.ok THEN extlang_many(s, r.pos, left - 1) ELSE p
    IN More(extlang_one(s, p))

\* language = recognize(pair(alphanums(2, 3), opt(extlang))).
language(s, p) ==
    LET Extlang(l) == IF l.ok THEN Matched(extlang_many(s, l.pos, 3)) ELSE Failed(p)
    IN Extlang(alphanums(2, 3, s, p))

\* many0(variant) and many0(extension): the subtags matched from p on, each
\* as the [from, to) offsets of its text (without the leading '-').
RECURSIVE many0(_, _, _)
many0(sub, s, p) ==
    LET More(r) ==
            IF r.ok THEN <<[from |-> p + 1, to |-> r.pos]>> \o many0(sub, s, r.pos)
            ELSE <<>>
    IN More(IF sub = "variant" THEN variant_sub(s, p) ELSE extension_sub(s, p))

ManyEnd(spans, p) == IF spans = <<>> THEN p ELSE spans[Len(spans)].to
SpanTexts(s, spans) == [i \in 1..Len(spans) |-> Slice(s, spans[i].from, spans[i].to)]
Lens(texts) == [i \in 1..Len(texts) |-> Len(texts[i])]

\* The terminator of langtag: the next byte is neither '-' nor alphanumeric.
terminator(s, p) ==
    ~(p < Len(s) /\ (CharAt(s, p) = "-" \/ IsAlnum(CharAt(s, p))))

\* opt(parser): where the rest starts, and the matched text as an Option.
OptEnd(r, p) == IF r.ok THEN r.pos ELSE p
OptText(r, s, p) == IF r.ok THEN Some(Slice(s, p + 1, r.pos)) ELSE None

\* One element of the tuple of langtag: what it matched (an Option for
\* opt(..), the sorted list for many0(..)) and where the rest starts.
Element(value, pos) == [value |-> value, pos |-> pos]
opt_element(r, s, p) == Element(OptText(r, s, p), OptEnd(r, p))
many0_element(spans, s, p) ==
    Element(sort_unstable(SpanTexts(s, spans)), ManyEnd(spans, p))

NoTag == [ok |-> FALSE, rest |-> 0, tag |-> default]
YesTag(rest, tag) == [ok |-> TRUE, rest |-> rest, tag |-> tag]

\* fn langtag.
langtag(s) ==
    LET Finish(l, sc, rg, vs, es, pr) ==
            IF ~l.ok \/ ~terminator(s, pr.pos) THEN NoTag
            ELSE YesTag(pr.pos,
                        Tag_new(Slice(s, 0, pr.pos), l.pos,
                                NonZeroLen(sc.value), NonZeroLen(rg.value),
                                Lens(vs.value), Lens(es.value),
                                NonZeroLen(pr.value)))
        Private(l, sc, rg, vs, es) ==
            Finish(l, sc, rg, vs, es,
                   opt_element(private_sub(s, es.pos), s, es.pos))
        Extensions(l, sc, rg, vs) ==
            Private(l, sc, rg, vs,
                    many0_element(many0("extension", s, vs.pos), s, vs.pos))
        Variants(l, sc, rg) ==
            Extensions(l, sc, rg,
                       many0_element(many0("variant", s, rg.pos), s, rg.pos))
        Region(l, sc) ==
            Variants(l, sc, opt_element(region_sub(s, sc.pos), s, sc.pos))
        Script(l) == Region(l, opt_element(script_sub(s, l.pos), s, l.pos))
    IN Script(language(s, 0))

\* fn privateuse.
privateuse_rule(s) ==
    LET Recognized(r) ==
            IF r.ok THEN YesTag(r.pos, privateuse(Slice(s, 0, r.pos))) ELSE NoTag
    IN Recognized(private_form(s, 0))


\* One entry of the fixed_parse! macro: the name and the optional substitute
\* language, region and variant.
Fixed(name, lng, reg, var) == [name |-> name, lang |-> lng, region |-> reg, variant |-> var]

\* The alternatives of grandfathered_regular, in order.
regular_table ==
    << Fixed("cel-gaulish", None, None, None),
       Fixed("art-lojban", Some("jbo"), None, None),
       Fixed("zh-min-nan", Some("nan"), None, None),
       Fixed("zh-hakka", Some("hak"), None, None),
       Fixed("zh-guoyu", Some("cmn"), None, None),
       Fixed("zh-xiang", Some("hsn"), None, None),
       Fixed("zh-min", None, None, None),
       Fixed("no-bok", Some("nb"), None, None),
       Fixed("no-nyn", Some("nn"), None, None) >>

\* The alternatives of grandfathered_irregular, in order.
irregular_table ==
    << Fixed("i-enochian", None, None, None),
       Fixed("en-GB-oed", Some("en"), Some("GB"), Some("oxendict")),
       Fixed("i-default", None, None, None),
       Fixed("i-klingon", Some("tlh"), None, None),
       Fixed("i-navajo", Some("nv"), None, None),
       Fixed("sgn-BE-FR", Some("sfb"), None, None),
       Fixed("sgn-BE-NL", Some("vgt"), None, None),
       Fixed("sgn-CH-DE", Some("sgg"), None, None),
       Fixed("i-mingo", None, None, None),
       Fixed("i-ami", Some("ami"), None, None),
       Fixed("i-bnn", Some("bnn"), None, None),
       Fixed("i-hak", Some("hak"), None, None),
       Fixed("i-lux", Some("lb"), None, None),
       Fixed("i-pwn", Some("pwn"), None, None),
       Fixed("i-tao", Some("tao"), None, None),
       Fixed("i-tay", Some("tay"), None, None),
       Fixed("i-tsu", Some("tsu"), None, None) >>

\* fn fixed_parse(name, lang, region, variant) = value(from_parts(..),
\* tag(name)): the input starts with name.
fixed_parse(f, s) ==
    IF Len(s) >= Len(f.name) /\ Slice(s, 0, Len(f.name)) = f.name
    THEN YesTag(Len(f.name),
                from_parts(IF f.lang = None THEN f.name ELSE f.lang[1],
                           None, f.region, f.variant, <<>>, None))
    ELSE NoTag

\* alt((..)) over a table of fixed_parse entries: the first that matches.
RECURSIVE alt_fixed(_, _)
alt_fixed(table, s) ==
    LET Alt(first) == IF first.ok THEN first ELSE alt_fixed(Tail(table), s)
    IN IF table = <<>> THEN NoTag ELSE Alt(fixed_parse(Head(table), s))

\* fn grandfathered_regular, fn grandfathered_irregular.
grandfathered_regular(s) == alt_fixed(regular_table, s)
grandfathered_irregular(s) == alt_fixed(irregular_table, s)

\* languagetag as it would be if langtag were tried before the regular
\* grandfathered table.
languagetag_langtag_first(s) ==
    LET Alt(regular, general, private_only) ==
            IF general.ok THEN general
            ELSE IF regular.ok THEN regular
            ELSE IF private_only.ok THEN private_only
            ELSE grandfathered_irregular(s)
    IN Alt(grandfathered_regular(s), langtag(s), privateuse_rule(s))

\* fn languagetag = alt((grandfathered_regular, langtag, privateuse,
\* grandfathered_irregular)).
languagetag(s) ==
    LET Alt(regular, general, private_only) ==
            IF regular.ok THEN regular
            ELSE IF general.ok THEN general
            ELSE IF private_only.ok THEN private_only
            ELSE grandfathered_irregular(s)
    IN Alt(grandfathered_regular(s), langtag(s), privateuse_rule(s))

\* impl FromStr for Tag (from_str.rs): the rest of the input is dropped.
from_str(s) ==
    LET Parsed(r) == IF r.ok THEN Some(r.tag) ELSE None
    IN Parsed(languagetag(s))

-----------------------------------------------------------------------------
(* langtags: TagSet (tagset.rs) and LangTags (langtags.rs).                *)

\* struct TagSet, deserialized from one JSON row: the Tag fields are parsed
\* from their text; name stands for the display metadata.
TagSet(full, tag, tags, regions, vnts, nophonvars, name) ==
    LET Parsed(ts) ==
            [full |-> ts[1], tag |-> ts[2], tags |-> SubSeq(ts, 3, Len(ts)),
             regions |-> regions, variants |-> vnts,
             nophonvars |-> nophonvars, name |-> name]
        Texts(texts) == Parsed([i \in 1..Len(texts) |-> from_str(texts[i])[1]])
    IN Texts(<<full, tag>> \o tags)

\* TagSet::iter: [tag, tags.., full].
iter(ts) == <<ts.tag>> \o ts.tags \o <<ts.full>>

Range(seq) == {seq[i] : i \in 1..Len(seq)}

\* map_extend as it would be if a text already present kept its row.
map_extend_keep_first(map, keys, i) ==
    [k \in DOMAIN map \cup keys |-> IF k \in DOMAIN map THEN map[k] ELSE i]

\* HashMap::extend with the (text, row) pairs of one row: a text already
\* present is overwritten.
map_extend(map, keys, i) ==
    [k \in DOMAIN map \cup keys |-> IF k \in keys THEN i ELSE map[k]]

\* The loop of LangTags::build_caches over the rows from i on (rows are
\* numbered from 1 here).
RECURSIVE build_loop(_, _)
build_loop(lts, i) ==
    LET Row(ts) ==
            build_loop(
              [lts EXCEPT
                 !.full = map_extend(@, {t.buf : t \in Range(iter(ts))}, i),
                 !.scripts = @ \cup {script(ts.full)[1]},
                 !.regions = @ \cup {region(ts.full)[1]} \cup Range(ts.regions)],
              i + 1)
    IN IF i > Len(lts.tagsets) THEN lts ELSE Row(lts.tagsets[i])

\* LangTags after the loader: the header sets, the rows, and build_caches.
build_caches(rows, globalvar, phonvar) ==
    build_loop([scripts |-> {}, regions |-> {}, variants |-> globalvar,
                latn_variants |-> phonvar, tagsets |-> rows,
                full |-> [k \in {} |-> 0]], 1)

\* HashMap::get.
map_get(map, key) == IF key \in DOMAIN map THEN Some(map[key]) ELSE None

\* valid_region as it would be if the row's regions list were not consulted.
valid_region_canonical_only(ts, reg) ==
    reg = None \/ region(ts.full) = reg

\* LangTags::valid_region.
valid_region(ts, reg) ==
    reg = None \/ region(ts.full) = reg \/ reg[1] \in Range(ts.regions)

\* LangTags::valid_variants.
valid_variants(lts, ts, tag) ==
    \/ ~has_variants(tag)
    \/ \A v \in Range(variants(tag)) :
          \/ v \in Range(ts.variants)
          \/ v \in lts.variants
          \/ /\ ~ts.nophonvars
             /\ (script(ts.tag) = None \/ script(ts.full) = Some("Latn"))
             /\ v \in lts.latn_variants

\* LangTags::valid_extensions.
valid_extensions(ts, exts) ==
    LET Supplied(supplied) ==
            \/ supplied = {}
            \/ \E t \in Range(iter(ts)) : ~(Range(extensions(t)) \subseteq supplied)
    IN Supplied(Range(exts))

\* erase as it would be if the variants were cleared before the extensions.
erase_variants_first(k, key) ==
    CASE k = 1 -> set_private(key, "")
      [] k = 2 -> set_variants(key, <<>>)
      [] k = 3 -> set_extensions(key, <<>>)
      [] k = 4 -> set_region(key, "")

\* The erasure the k-th or_else closure of orthographic_normal_form applies
\* to key before its lookup.
erase(k, key) ==
    CASE k = 1 -> set_private(key, "")
      [] k = 2 -> set_extensions(key, <<>>)
      [] k = 3 -> set_variants(key, <<>>)
      [] k = 4 -> set_region(key, "")

\* The or_else chain of orthographic_normal_form from lookup k on (k = 0 is
\* the lookup of the unmodified key): the index found, the key as left by the
\* closures that ran, and the texts looked up, in order.
RECURSIVE lookup_chain(_, _, _)
lookup_chain(lts, key, k) ==
    LET Probed(more) == [more EXCEPT !.probes = <<key.buf>> \o @]
        Get(hit) ==
            IF hit # None \/ k = 4
            THEN [idx |-> hit, key |-> key, probes |-> <<key.buf>>]
            ELSE Probed(lookup_chain(lts, erase(k + 1, key), k + 1))
    IN Get(map_get(lts.full, key.buf))

\* LangTags::orthographic_normal_form: Some(row number) or None.
orthographic_normal_form(lts, tag) ==
    LET private_is_valid(ts) ==
            \/ private(ts.full) = None
            \/ private(tag) # None /\ private(tag) = private(ts.full)
        Checked(found, ts) ==
            IF \/ TagEq(found.key, tag)
               \/ /\ valid_region(ts, region(tag))
                  /\ valid_variants(lts, ts, tag)
                  /\ valid_extensions(ts, extensions(tag))
                  /\ private_is_valid(ts)
            THEN found.idx ELSE None
        Found(found) ==
            IF found.idx = None THEN None
            ELSE Checked(found, lts.tagsets[found.idx[1]])
    IN Found(lookup_chain(lts, tag, 0))

\* Vec::remove of every element of tags without a region, then set_region on
\* the rest (the two loops of locale_normal_form).
RECURSIVE retag(_, _)
retag(tags, reg) ==
    IF tags = <<>> THEN <<>>
    ELSE IF region(Head(tags)) = None THEN retag(Tail(tags), reg)
    ELSE <<set_region(Head(tags), reg)>> \o retag(Tail(tags), reg)

\* iter().position(|x| x == region): the first index, or 0.
position(seq, x) ==
    IF x \in Range(seq) THEN CHOOSE i \in 1..Len(seq) :
                               seq[i] = x /\ \A j \in 1..(i - 1) : seq[j] # x
    ELSE 0

\* LangTags::locale_normal_form: [kind |-> "None"], [kind |-> "Some", ts] or,
\* when position(..).unwrap() fails, [kind |-> "Panic"].
NoTagSet ==
    [full |-> default, tag |-> default, tags |-> <<>>, regions |-> <<>>,
     variants |-> <<>>, nophonvars |-> FALSE, name |-> ""]
locale_normal_form(lts, tag) ==
    LET Swapped(ts, reg, ri) ==
            IF ri = 0 THEN [kind |-> "Panic", ts |-> NoTagSet]
            ELSE [kind |-> "Some",
                  ts |-> [ts EXCEPT
                            !.regions[ri] = region(ts.full)[1],
                            !.full = set_region(@, reg[1]),
                            !.tag = set_region(@, reg[1]),
                            !.tags = retag(@, reg[1])]]
        Cloned(ts, reg) ==
            IF reg = None THEN [kind |-> "Some", ts |-> ts]
            ELSE Swapped(ts, reg, position(ts.regions, reg[1]))
        Resolved(ortho) ==
            IF ortho = None THEN [kind |-> "None", ts |-> NoTagSet]
            ELSE Cloned(lts.tagsets[ortho[1]], region(tag))
    IN Resolved(orthographic_normal_form(lts, tag))

-----------------------------------------------------------------------------
(* State.  One group of variables per component; a specification that      *)
(* drives one component keeps the others idle.                              *)

VARIABLES
    op,        \* the operation that produced the current state
    ltdb,      \* the loaded LangTags
    request,   \* the Tag a caller asks the database about
    ortho,     \* the outcome of orthographic_normal_form(request)
    locale,    \* the outcome of locale_normal_form(request)
    input,     \* the text handed to the parser
    pieces,    \* the subtags input was written from
    parsed,    \* the outcome of the nom rule applied to input
    result,    \* the outcome of Tag::from_str(input)
    cur,       \* the Tag under construction and mutation
    origin,    \* the constructor cur came from
    given,     \* the component values most recently given to cur
    steps,     \* the number of mutators applied to cur
    reparsed,  \* the outcome of parsing the text of cur
    call,      \* the mutator called last, its argument, whether it panicked
    lhs,       \* the left Tag of a comparison
    rhs,       \* the right Tag of a comparison
    compared,  \* what ==, hash and cmp gave for lhs and rhs
    profiles,  \* the names of the configured profiles, in collection order
    setup,     \* the outcome of the last Profiles::set_fallback
    disk,      \* the files under the langtags and sldr directories
    req,       \* the request being served
    handled,   \* the response of the route's handler, before the ETag layer
    rsp,       \* the response of the application
    prev,      \* the response a revalidating request was made after
    tasks      \* the requests in flight, each with its position in the stack

vars == <<op, ltdb, request, ortho, locale, input, pieces, parsed, result,
          cur, origin, given, steps, reparsed, call, lhs, rhs, compared,
          profiles, setup, disk, req, handled, rsp, prev, tasks>>
dbVars == <<ltdb, request, ortho, locale>>
parserVars == <<input, pieces, parsed, result>>
tagVars == <<cur, origin, given, steps, reparsed, call>>
cmpVars == <<lhs, rhs, compared>>
webVars == <<profiles, setup, disk, req, handled, rsp, prev>>
concVars == <<tasks>>

NoOrtho == [idx |-> None, key |-> default, probes |-> <<>>, result |-> None]
NoLocale == [kind |-> "Idle", ts |-> NoTagSet]
NoPieces == [kind |-> "none", lang |-> "", script |-> "", region |-> "",
             variants |-> <<>>, extensions |-> <<>>, private |-> "",
             tail |-> ""]
NoGiven == [lang |-> "", script |-> "", region |-> "", variants |-> <<>>,
            extensions |-> {}, private |-> ""]
NoCall == [name |-> "", arg |-> <<>>, panicked |-> FALSE]

IdleDb ==
    /\ ltdb = build_caches(<<>>, {}, {})
    /\ request = default
    /\ ortho = NoOrtho
    /\ locale = NoLocale

IdleParser ==
    /\ input = ""
    /\ pieces = NoPieces
    /\ parsed = NoTag
    /\ result = None

NoCompared == [eq |-> FALSE, hash |-> <<"", "">>, ord |-> "", rev |-> ""]

IdleCmp ==
    /\ lhs = default
    /\ rhs = default
    /\ compared = NoCompared

NoSetup == [result |-> "", name |-> "", before |-> <<>>, message |-> ""]
NoRequest == [uri |-> "", if_none_match |-> None]
NoResponse ==
    [status |-> 0, body |-> <<>>, etag |-> None, location |-> "",
     filename |-> "", profile |-> None, cache_control |-> None]
NoPrev == [uri |-> "", etag |-> None, fresh |-> FALSE]

IdleWeb ==
    /\ profiles = <<>>
    /\ setup = NoSetup
    /\ disk = <<>>
    /\ req = NoRequest
    /\ handled = NoResponse
    /\ rsp = NoResponse
    /\ prev = NoPrev

IdleConc == tasks = <<>>

IdleTag ==
    /\ cur = default
    /\ origin = "default"
    /\ given = NoGiven
    /\ steps = 0
    /\ reparsed = None
    /\ call = NoCall

-----------------------------------------------------------------------------
(* The langtags database: rows, header sets and requests.                   *)

\* Most rows a loaded database holds.
MaxRows == 2

\* One row of langtags.json as written in the file.
Json(full, tag, tags, regions, vnts, nophonvars, name) ==
    [full |-> full, tag |-> tag, tags |-> tags, regions |-> regions,
     variants |-> vnts, nophonvars |-> nophonvars, name |-> name]

\* Rows of langtags.json the database is loaded from, in file order.
RowTexts ==
    << Json("en-Latn-US", "en", <<"en-Latn", "en-US">>, <<"GB", "TW">>,
              <<>>, FALSE, "English"),
       Json("aeb-Arab-TN", "aeb", <<"aeb-Arab", "aeb-TN">>, <<>>,
              <<>>, FALSE, "Tunisian Arabic"),
       Json("aeb-Hebr-IL", "aeb-Hebr", <<"aeb-IL">>, <<>>,
              <<>>, FALSE, "Tunisian Arabic (Hebrew)"),
       Json("dgl-Copt-SD-x-olnubian", "dgl-Copt", <<>>, <<>>,
              <<>>, FALSE, "Old Nubian"),
       Json("ca-Latn-ES", "ca", <<"ca-ES", "ca-Latn">>, <<"AD", "FR">>,
              <<"valencia">>, FALSE, "Catalan"),
       Json("pt-Latn-BR", "pt", <<"pt-BR", "pt-Latn">>, <<"PT">>,
              <<>>, TRUE, "Portuguese"),
       Json("ja-Jpan-JP-u-kana", "ja", <<"ja-JP">>, <<>>,
              <<>>, FALSE, "Japanese"),
       Json("aeb-Latn-TN", "aeb-Latn", <<"aeb-TN">>, <<"LY">>,
              <<>>, FALSE, "Tunisian Arabic (Latin)") >>

\* The rows deserialized.
Rows ==
    [i \in 1..Len(RowTexts) |->
        TagSet(RowTexts[i].full, RowTexts[i].tag, RowTexts[i].tags,
               RowTexts[i].regions, RowTexts[i].variants,
               RowTexts[i].nophonvars, RowTexts[i].name)]

\* The globalvar and phonvar lists of the header row.
GlobalVar == {"simple"}
PhonVar == {"fonipa"}

\* The rows numbered by S, in file order.
RECURSIVE PickRows(_, _)
PickRows(S, i) ==
    IF i > Len(Rows) THEN <<>>
    ELSE (IF i \in S THEN <<Rows[i]>> ELSE <<>>) \o PickRows(S, i + 1)

\* Texts of the tags requested.
RequestTexts ==
    { "en", "en-US", "en-TW", "en-GB", "en-TW-simple", "en-XX",
      "en-TW-bogus1", "en-fonipa", "en-a-foo", "en-US-x-priv", "en-Latn",
      "en-Latn-US", "en-Latn-TW", "en-TW-simple-a-foo-x-priv", "en-Cyrl",
      "aeb", "aeb-TN", "aeb-Arab", "aeb-Arab-TN", "aeb-Hebr", "aeb-IL",
      "aeb-Hebr-IL", "aeb-fonipa", "aeb-Hebr-fonipa", "aeb-Latn",
      "aeb-Latn-TN", "aeb-LY", "aeb-IL-simple",
      "dgl-Copt", "dgl-Copt-SD", "dgl-Copt-SD-x-olnubian",
      "dgl-Copt-x-olnubian", "dgl-Copt-x-other",
      "ca", "ca-AD", "ca-ES", "ca-Latn", "ca-Latn-ES", "ca-valencia",
      "ca-AD-valencia",
      "pt", "pt-BR", "pt-PT", "pt-Latn", "pt-Latn-BR", "pt-fonipa",
      "ja", "ja-JP", "ja-t-foo", "ja-u-kana", "ja-Jpan-JP-u-kana",
      "ja-u-kana-t-foo", "zz", "x-priv" }

Requests == {from_str(s)[1] : s \in RequestTexts}

InitDb ==
    /\ op = "load"
    /\ \E S \in SUBSET (1..Len(Rows)) :
          /\ Cardinality(S) \in 1..MaxRows
          /\ ltdb = build_caches(PickRows(S, 1), GlobalVar, PhonVar)
    /\ request \in Requests
    /\ ortho = NoOrtho
    /\ locale = NoLocale
    /\ IdleParser
    /\ IdleTag
    /\ IdleCmp
    /\ IdleWeb
    /\ IdleConc

\* The caller resolves request with orthographic_normal_form.
OrthographicNormalForm ==
    /\ op' = "ortho"
    /\ ortho' = lookup_chain(ltdb, request, 0) @@
                [result |-> orthographic_normal_form(ltdb, request)]
    /\ locale' = NoLocale
    /\ UNCHANGED <<ltdb, request, parserVars, tagVars, cmpVars, webVars, concVars>>

\* The caller resolves request with locale_normal_form.
LocaleNormalForm ==
    /\ op' = "locale"
    /\ ortho' = NoOrtho
    /\ locale' = locale_normal_form(ltdb, request)
    /\ UNCHANGED <<ltdb, request, parserVars, tagVars, cmpVars, webVars, concVars>>

NextDb ==
    \/ OrthographicNormalForm
    \/ LocaleNormalForm

SpecDb == InitDb /\ [][NextDb]_vars

-----------------------------------------------------------------------------
(* Claims about the normal forms (SpecDb).                                  *)

\* The text of t as given and cut after its extensions, its variants, its
\* region and its script: t with private, then also extensions, then also
\* variants, then also region removed.
ErasureTexts(t) ==
    << t.buf,
       Slice(t.buf, 0, t.end.extensions),
       Slice(t.buf, 0, t.end.variants),
       Slice(t.buf, 0, t.end.region),
       Slice(t.buf, 0, t.end.script) >>

\* The first of texts that is a key of the index, or 0.
FirstHit(texts) ==
    IF \E k \in 1..Len(texts) : texts[k] \in DOMAIN ltdb.full
    THEN CHOOSE k \in 1..Len(texts) :
           /\ texts[k] \in DOMAIN ltdb.full
           /\ \A j \in 1..(k - 1) : texts[j] \notin DOMAIN ltdb.full
    ELSE 0

\* C1: orthographic_normal_form looks up, in this order, the tag text as
\* given, then without private, then also without extensions, then also
\* without variants, then also without region; it stops at the first hit,
\* whose row is the candidate; the script is never erased; if all five
\* lookups miss the result is None.
C1_ProgressiveErasure ==
    op = "ortho" =>
        LET texts == ErasureTexts(request)
            k == FirstHit(texts)
        IN /\ IF k = 0
              THEN ortho.probes = texts /\ ortho.idx = None /\ ortho.result = None
              ELSE /\ ortho.probes = SubSeq(texts, 1, k)
                   /\ ortho.idx = Some(ltdb.full[texts[k]])
           /\ lang(ortho.key) = lang(request)
           /\ script(ortho.key) = script(request)

\* C1 witness: a request with every component, found only by the fifth lookup.
C1_Witness ==
    /\ op = "ortho"
    /\ Len(ortho.probes) = 5
    /\ Cardinality(Range(ortho.probes)) = 5
    /\ ortho.idx # None
    /\ script(request) = None

\* The four checks of the claim C2, against the request and the row.
RegionCheck(row) ==
    \/ region(request) = None
    \/ region(request) = region(row.full)
    \/ \E i \in 1..Len(row.regions) : region(request) = Some(row.regions[i])

VariantsCheck(row) ==
    \A i \in 1..Len(variants(request)) :
        LET v == variants(request)[i]
        IN \/ \E j \in 1..Len(row.variants) : row.variants[j] = v
           \/ v \in GlobalVar
           \/ /\ v \in PhonVar
              /\ row.nophonvars = FALSE
              /\ (script(row.tag) = None \/ script(row.full) = Some("Latn"))

ExtensionsCheck(row) ==
    \/ extensions(request) = <<>>
    \/ \E t \in Range(iter(row)) :
          \E e \in Range(extensions(t)) : e \notin Range(extensions(request))

PrivateCheck(row) ==
    \/ private(row.full) = None
    \/ private(request) = private(row.full)

\* C2: a hit on the unmodified tag text returns the row unconditionally; a
\* hit reached only after erasure returns the row if and only if the region,
\* variants, extensions and private checks all hold against the original
\* tag; otherwise the result is None.
C2_VerbatimOrChecked ==
    op = "ortho" =>
        IF request.buf \in DOMAIN ltdb.full
        THEN ortho.result = Some(ltdb.full[request.buf])
        ELSE IF ortho.idx = None THEN ortho.result = None
        ELSE LET row == ltdb.tagsets[ortho.idx[1]]
             IN ortho.result =
                  IF /\ RegionCheck(row)
                     /\ VariantsCheck(row)
                     /\ ExtensionsCheck(row)
                     /\ PrivateCheck(row)
                  THEN ortho.idx ELSE None

\* C2 witness: a request with a region and a variant that is not a key,
\* accepted after erasure (en-TW-simple on the en-Latn-US row).
C2_Witness ==
    /\ op = "ortho"
    /\ request.buf \notin DOMAIN ltdb.full
    /\ region(request) # None
    /\ has_variants(request)
    /\ ortho.result # None

\* The rows of the database whose iter() yields the request.
RowsYielding ==
    {i \in 1..Len(ltdb.tagsets) : request \in Range(iter(ltdb.tagsets[i]))}

\* C3 as stated: every tag yielded by a row's iter() resolves to that row.
C3_OwnTagsResolveToRow ==
    op = "ortho" => \A i \in RowsYielding : ortho.result = Some(i)

\* C3 as amended: a tag yielded by a row's iter() resolves to the last row
\* of the database whose iter() yields a tag of the same text; that is the
\* row itself unless a later row yields the same text.
C3_OwnTagsResolveToLastRow ==
    op = "ortho" =>
        \A i \in RowsYielding :
            (\A j \in RowsYielding : j <= i) => ortho.result = Some(i)

\* C3 witness: a tag two rows yield has been resolved, to the later row.
C3_Witness ==
    /\ op = "ortho"
    /\ \E i, j \in RowsYielding : i < j /\ ortho.result = Some(j)

\* C4: locale_normal_form returns None exactly when orthographic_normal_form
\* does; without a region in the tag it returns the resolved row unmodified;
\* with region r it returns the row with the entry r of regions replaced by
\* the canonical region, full and tag carrying r, the tags without region
\* dropped and the others carrying r, and every other field unchanged.
C4_LocaleNormalForm ==
    op = "locale" =>
        LET found == orthographic_normal_form(ltdb, request)
        IN /\ (locale.kind = "None") <=> (found = None)
           /\ found # None =>
                LET row == ltdb.tagsets[found[1]]
                    r == region(request)
                    out == locale.ts
                IN /\ locale.kind = "Some"
                   /\ r = None => out = row
                   /\ r # None =>
                        /\ out.regions =
                             [i \in 1..Len(row.regions) |->
                                IF row.regions[i] = r[1]
                                THEN region(row.full)[1] ELSE row.regions[i]]
                        /\ region(out.full) = r
                        /\ region(out.tag) = r
                        /\ Len(out.tags) =
                             Cardinality({i \in 1..Len(row.tags) :
                                            region(row.tags[i]) # None})
                        /\ \A i \in 1..Len(out.tags) : region(out.tags[i]) = r
                        /\ out.variants = row.variants
                        /\ out.nophonvars = row.nophonvars
                        /\ out.name = row.name

\* C5: locale_normal_form panics only when the supplied region is neither in
\* the resolved row's regions nor its canonical region; for every tag that
\* orthographic_normal_form accepts it returns Some.
C5_LocaleNeverPanicsOnAccepted ==
    op = "locale" =>
        LET found == orthographic_normal_form(ltdb, request)
        IN /\ found # None => locale.kind = "Some"
           /\ locale.kind = "Panic" =>
                /\ region(request) # region(ltdb.tagsets[found[1]].full)
                /\ region(request)[1] \notin Range(ltdb.tagsets[found[1]].regions)

\* The tags of iter() are pairwise distinct, have the lang of full and no
\* script other than full's, and the region of full is not in regions.
DistinctTags(ts) ==
    /\ \A i, j \in 1..Len(iter(ts)) : i # j => iter(ts)[i] # iter(ts)[j]
    /\ \A i \in 1..Len(iter(ts)) :
           /\ lang(iter(ts)[i]) = lang(ts.full)
           /\ script(iter(ts)[i]) \in {None, script(ts.full)}
    /\ region(ts.full) # None => region(ts.full)[1] \notin Range(ts.regions)

\* C29: in every TagSet locale_normal_form returns, as in every row of the
\* database it was taken from, tag, the elements of tags and full are
\* pairwise distinct and share lang and script, and the region of full is
\* not in regions; so a region substituted into a row whose tag has no
\* region does not give two identical tags in iter().
C29_LocaleTagsDistinct ==
    /\ \A i \in 1..Len(ltdb.tagsets) : DistinctTags(ltdb.tagsets[i])
    /\ (op = "locale" /\ locale.kind = "Some") => DistinctTags(locale.ts)

-----------------------------------------------------------------------------
(* The parser: inputs written from subtags, and the rules applied to them.  *)

\* The subtags inputs are written from.
Languages == {"en", "En", "zh-cmn", "a1"}
Scripts == {"", "Latn"}
Regions == {"", "US", "419"}
VariantLists == {<<>>, <<"simple">>, <<"valencia", "1996">>}
\* Extensions: a namespace and the names that follow it.
Extension(ns, names) == [ns |-> ns, names |-> names]
ExtensionLists ==
    { <<>>,
      <<Extension("a", <<"foo", "bar">>)>>,
      <<Extension("u", <<"kana">>), Extension("b", <<"baz">>)>> }
Privates == {"", "x-a-b1"}
\* What follows the tag in the input.
Tails == {"", "_x", "-", "x", "-a"}

\* The 26 grandfathered names.
GrandfatheredNames ==
    {regular_table[i].name : i \in 1..Len(regular_table)}
        \cup {irregular_table[i].name : i \in 1..Len(irregular_table)}

\* The non-empty subtags of a tag, in order.
Subtags(pc) ==
    SelectSeq(<<pc.lang, pc.script, pc.region>> \o pc.variants
                  \o [i \in 1..Len(pc.extensions) |->
                         join(<<pc.extensions[i].ns>> \o pc.extensions[i].names, "-")]
                  \o <<pc.private>>,
              LAMBDA x : x # "")

\* The input written from pieces.
Compose(pc) == join(Subtags(pc), "-") \o pc.tail

InputPieces ==
    [kind : {"langtag"}, lang : Languages, script : Scripts, region : Regions,
     variants : VariantLists, extensions : ExtensionLists, private : Privates,
     tail : Tails]
    \cup [kind : {"privateuse"}, lang : {""}, script : {""}, region : {""},
          variants : {<<>>}, extensions : {<<>>},
          private : {"x-priv", "x-a-b1", "x-abcdefgh"},
          tail : Tails \cup {"ij"}]
    \cup [kind : {"grandfathered"}, lang : GrandfatheredNames \cup {"en-GB-oedipus"},
          script : {""}, region : {""}, variants : {<<>>},
          extensions : {<<>>}, private : {""}, tail : Tails \cup {"foo"}]

InitParser ==
    /\ op = "input"
    /\ pieces \in InputPieces
    /\ input = Compose(pieces)
    /\ parsed = NoTag
    /\ result = None
    /\ IdleDb
    /\ IdleTag
    /\ IdleCmp
    /\ IdleWeb
    /\ IdleConc

\* fn langtag applied to input.
Langtag ==
    /\ op' = "langtag"
    /\ parsed' = langtag(input)
    /\ result' = None
    /\ UNCHANGED <<input, pieces, dbVars, tagVars, cmpVars, webVars, concVars>>

\* Tag::from_str(input): the languagetag rule, then the rest dropped.
FromStr ==
    /\ op' = "from_str"
    /\ parsed' = languagetag(input)
    /\ result' = IF parsed'.ok THEN Some(parsed'.tag) ELSE None
    /\ UNCHANGED <<input, pieces, dbVars, tagVars, cmpVars, webVars, concVars>>

NextParser ==
    \/ Langtag
    \/ FromStr

SpecParser == InitParser /\ [][NextParser]_vars

-----------------------------------------------------------------------------
(* Claims about the parser (SpecParser).                                    *)

\* A tail that ends a tag: nothing, or a first character that is neither
\* alphanumeric nor '-'.
ProperTail(tail) ==
    tail = "" \/ (~IsAlnum(SubSeq(tail, 1, 1)) /\ SubSeq(tail, 1, 1) # "-")

\* The (namespace, name) pairs of a list of extensions, in order.
RECURSIVE PiecePairs(_)
PiecePairs(exts) ==
    IF exts = <<>> THEN <<>>
    ELSE [i \in 1..Len(Head(exts).names) |->
            [namespace |-> Head(exts).ns, name |-> Head(exts).names[i]]]
         \o PiecePairs(Tail(exts))

\* An absent subtag is written "" in pieces and read as None.
Opt(x) == IF x = "" THEN None ELSE Some(x)

\* C6: for every input the langtag rule accepts, the Tag's text is exactly
\* the consumed prefix of the input, and its accessors return the subtags
\* the input was written from: language with ext-langs, script, region,
\* variants in input order, extensions as (namespace, name) pairs with the
\* namespace restored, private with its x- prefix; absent components read
\* as None or empty.
C6_LangtagKeepsSubtags ==
    (op = "langtag" /\ parsed.ok) =>
        /\ parsed.tag.buf = Slice(input, 0, parsed.rest)
        /\ (pieces.kind = "langtag" /\ ProperTail(pieces.tail)) =>
              LET t == parsed.tag
              IN /\ t.buf \o pieces.tail = input
                 /\ lang(t) = pieces.lang
                 /\ script(t) = Opt(pieces.script)
                 /\ region(t) = Opt(pieces.region)
                 /\ variants(t) = pieces.variants
                 /\ has_variants(t) = (pieces.variants # <<>>)
                 /\ extensions(t) = PiecePairs(pieces.extensions)
                 /\ has_extensions(t) = (pieces.extensions # <<>>)
                 /\ private(t) = Opt(pieces.private)

\* C6 witness: an accepted input with every component, in mixed case, two
\* variants, two extension namespaces and text after the tag.
C6_Witness ==
    /\ op = "langtag"
    /\ parsed.ok
    /\ pieces.kind = "langtag"
    /\ pieces.lang = "En"
    /\ pieces.script # ""
    /\ pieces.region # ""
    /\ Len(pieces.variants) = 2
    /\ Len(pieces.extensions) = 2
    /\ pieces.private # ""
    /\ pieces.tail = "_x"

\* C7: parsing succeeds only if the recognised tag is followed by the end
\* of the input or by a character that is neither ASCII alphanumeric nor
\* '-', whichever alternative of the grammar recognised it.
C7_SuccessOnlyBeforeTerminator ==
    (op = "from_str" /\ result # None) =>
        \/ parsed.rest = Len(input)
        \/ /\ ~IsAlnum(CharAt(input, parsed.rest))
           /\ CharAt(input, parsed.rest) # "-"

\* The grandfathered names and the text of the tag each parses to.
GrandfatheredResult ==
    [n \in {"cel-gaulish", "zh-min", "i-default", "i-enochian", "i-mingo"} |-> n]
    @@ ("art-lojban" :> "jbo" @@ "en-GB-oed" :> "en-GB-oxendict"
        @@ "i-ami" :> "ami" @@ "i-bnn" :> "bnn" @@ "i-hak" :> "hak"
        @@ "i-klingon" :> "tlh" @@ "i-lux" :> "lb" @@ "i-navajo" :> "nv"
        @@ "i-pwn" :> "pwn" @@ "i-tao" :> "tao" @@ "i-tay" :> "tay"
        @@ "i-tsu" :> "tsu" @@ "no-bok" :> "nb" @@ "no-nyn" :> "nn"
        @@ "sgn-BE-FR" :> "sfb" @@ "sgn-BE-NL" :> "vgt"
        @@ "sgn-CH-DE" :> "sgg" @@ "zh-guoyu" :> "cmn"
        @@ "zh-hakka" :> "hak" @@ "zh-min-nan" :> "nan"
        @@ "zh-xiang" :> "hsn")

\* C8: each of the 26 grandfathered strings parses to its tabled result, a
\* substitute tag or a tag whose lang is the whole string; the regular
\* table is tried before the langtag rule (zh-min-nan yields nan) and the
\* irregular table only after langtag and private-use have failed (an input
\* that langtag accepts is not cut at an irregular name).
C8_GrandfatheredTable ==
    op = "from_str" =>
        /\ Cardinality(DOMAIN GrandfatheredResult) = 26
        /\ input \in DOMAIN GrandfatheredResult =>
              /\ result # None
              /\ result[1].buf = GrandfatheredResult[input]
              /\ extensions(result[1]) = <<>>
              /\ private(result[1]) = None
              /\ script(result[1]) = None
              /\ IF input = "en-GB-oed"
                 THEN /\ lang(result[1]) = "en"
                      /\ region(result[1]) = Some("GB")
                      /\ variants(result[1]) = <<"oxendict">>
                 ELSE /\ lang(result[1]) = GrandfatheredResult[input]
                      /\ region(result[1]) = None
                      /\ variants(result[1]) = <<>>
        /\ input = "en-GB-oedipus" =>
              /\ result # None
              /\ result[1].buf = "en-GB-oedipus"
              /\ variants(result[1]) = <<"oedipus">>

\* C8 witness: zh-min-nan, which the langtag rule would also accept, has
\* been parsed to nan.
C8_Witness ==
    /\ op = "from_str"
    /\ input = "zh-min-nan"
    /\ langtag(input).ok
    /\ result # None
    /\ result[1].buf = "nan"

-----------------------------------------------------------------------------
(* The Tag value: constructors, mutators and the round trip through text.   *)

\* Most mutators applied to one tag.
MaxSteps == 2

\* The component values a constructor was given.
Given(lng, scr, reg, vars_, exts, priv) ==
    [lang |-> lng, script |-> scr, region |-> reg, variants |-> vars_,
     extensions |-> exts, private |-> priv]

\* The (namespace, name) pair an extension subtag "n-name" stands for.
PairOf(ext) == ExtensionRef(Slice(ext, 0, 1), SliceFrom(ext, 2))

\* Texts handed to the parser and the component values each is written from.
ParseCases ==
    { <<"en", Given("en", "", "", <<>>, {}, "")>>,
      <<"en-Latn-US-simple-a-foo-x-priv",
        Given("en", "Latn", "US", <<"simple">>, {PairOf("a-foo")}, "x-priv")>>,
      <<"de-DE-u-kana-b-baz_x",
        Given("de", "", "DE", <<>>, {PairOf("u-kana"), PairOf("b-baz")}, "")>>,
      <<"en-a-foo-bar",
        Given("en", "", "", <<>>, {PairOf("a-foo"), PairOf("a-bar")}, "")>>,
      <<"x-priv", Given("", "", "", <<>>, {}, "x-priv")>>,
      <<"x-priv-", Given("", "", "", <<>>, {}, "x-priv")>>,
      <<"i-klingon", Given("tlh", "", "", <<>>, {}, "")>>,
      <<"i-default", Given("i-default", "", "", <<>>, {}, "")>>,
      <<"zh-min-nan", Given("nan", "", "", <<>>, {}, "")>>,
      <<"en-GB-oed", Given("en", "", "GB", <<"oxendict">>, {}, "")>> }

\* Arguments of Tag::from_parts.
PartsCases ==
    { Given("en", "", "", <<>>, <<>>, ""),
      Given("fr", "Latn", "FR", <<"simple">>, <<"b-baz", "a-foo">>, "x-priv"),
      Given("", "", "", <<>>, <<>>, "x-priv") }

InitTag ==
    /\ op = "new"
    /\ steps = 0
    /\ reparsed = None
    /\ call = NoCall
    /\ \/ /\ origin = "default"
          /\ cur = default
          /\ given = Given("", "", "", <<>>, {}, "")
       \/ /\ origin = "with_lang"
          /\ \E l \in {"en", "art-lojban"} :
                /\ cur = with_lang(l)
                /\ given = Given(l, "", "", <<>>, {}, "")
       \/ /\ origin = "privateuse"
          /\ cur = privateuse("x-priv")
          /\ given = Given("", "", "", <<>>, {}, "x-priv")
       \/ /\ origin = "from_parts"
          /\ \E a \in PartsCases :
                /\ cur = from_parts(a.lang, Opt(a.script), Opt(a.region),
                                    a.variants, a.extensions, Opt(a.private))
                /\ given = [a EXCEPT !.extensions = {PairOf(e) : e \in Range(@)}]
       \/ /\ origin = "parse"
          /\ \E c \in ParseCases :
                /\ cur = from_str(c[1])[1]
                /\ given = c[2]
    /\ IdleDb
    /\ IdleParser
    /\ IdleCmp
    /\ IdleWeb
    /\ IdleConc

\* What every mutator call has in common: one more call on the same tag.
\* A call that returns changes the tag; a call that panics leaves it as it
\* was.
Mutate(name, arg) ==
    /\ steps < MaxSteps
    /\ steps' = steps + 1
    /\ op' = name
    /\ call' = [name |-> name, arg |-> arg, panicked |-> FALSE]
    /\ reparsed' = None
    /\ UNCHANGED <<origin, dbVars, parserVars, cmpVars, webVars, concVars>>

Panic(name, arg) ==
    /\ steps < MaxSteps
    /\ steps' = steps + 1
    /\ op' = "panic"
    /\ call' = [name |-> name, arg |-> arg, panicked |-> TRUE]
    /\ UNCHANGED <<cur, origin, given, reparsed, dbVars, parserVars, cmpVars, webVars, concVars>>

SetLang(l) ==
    IF replace_range_panics(cur.buf, 0, cur.end.lang) THEN Panic("set_lang", <<l>>)
    ELSE /\ Mutate("set_lang", <<l>>)
         /\ cur' = set_lang(cur, l)
         /\ given' = [given EXCEPT !.lang = l]

SetScript(sc) ==
    IF component_replace_panics(cur.buf, cur.end.lang, cur.end.script, sc) THEN Panic("set_script", <<sc>>)
    ELSE /\ Mutate("set_script", <<sc>>)
         /\ cur' = set_script(cur, sc)
         /\ given' = [given EXCEPT !.script = sc]

SetRegion(r) ==
    IF component_replace_panics(cur.buf, cur.end.script, cur.end.region, r) THEN Panic("set_region", <<r>>)
    ELSE /\ Mutate("set_region", <<r>>)
         /\ cur' = set_region(cur, r)
         /\ given' = [given EXCEPT !.region = r]

SetVariants(vs) ==
    IF component_replace_panics(cur.buf, cur.end.region, cur.end.variants,
                                join(vs, "-"))
    THEN Panic("set_variants", vs)
    ELSE /\ Mutate("set_variants", vs)
         /\ cur' = set_variants(cur, vs)
         /\ given' = [given EXCEPT !.variants = vs]

PushVariant(v) ==
    IF insert_panics(cur.buf, cur.end.variants) THEN Panic("push_variant", <<v>>)
    ELSE /\ Mutate("push_variant", <<v>>)
         /\ cur' = push_variant(cur, v)
         /\ given' = [given EXCEPT !.variants = Append(@, v)]

PopVariant ==
    IF replace_range_panics(cur.buf, cur.end.region, cur.end.variants)
    THEN Panic("pop_variant", <<>>)
    ELSE /\ Mutate("pop_variant", <<>>)
         /\ cur' = pop_variant(cur)
         /\ given' = [given EXCEPT
                        !.variants = IF @ = <<>> THEN @
                                     ELSE SubSeq(@, 1, Len(@) - 1)]

SetExtensions(exts) ==
    IF \/ set_extensions_panics(exts)
       \/ component_replace_panics(cur.buf, cur.end.variants, cur.end.extensions,
                                   IF exts = <<>> THEN ""
                                   ELSE join(ElideSorted(sort_unstable(exts), ""), "-"))
    THEN Panic("set_extensions", exts)
    ELSE /\ Mutate("set_extensions", exts)
         /\ cur' = set_extensions(cur, exts)
         /\ given' = [given EXCEPT !.extensions = {PairOf(e) : e \in Range(exts)}]

AddExtension(e) ==
    IF find_extension_panics(cur, e) THEN Panic("add_extension", <<e>>)
    ELSE /\ Mutate("add_extension", <<e>>)
         /\ cur' = add_extension(cur, e)
         /\ given' = [given EXCEPT !.extensions = @ \cup {PairOf(e)}]

RemoveExtension(e) ==
    IF find_extension_panics(cur, e) THEN Panic("remove_extension", <<e>>)
    ELSE /\ Mutate("remove_extension", <<e>>)
         /\ cur' = remove_extension(cur, e)
         /\ given' = [given EXCEPT !.extensions = @ \ {PairOf(e)}]

SetPrivate(p) ==
    IF component_replace_panics(cur.buf, cur.end.extensions, Len(cur.buf), p) THEN Panic("set_private", <<p>>)
    ELSE /\ Mutate("set_private", <<p>>)
         /\ cur' = set_private(cur, p)
         /\ given' = [given EXCEPT !.private = p]

\* t.to_string().parse::<Tag>().
ParseText ==
    /\ op' = "parse_text"
    /\ reparsed' = from_str(to_string(cur))
    /\ UNCHANGED <<cur, origin, given, steps, call, dbVars, parserVars, cmpVars, webVars, concVars>>

\* Entries handed to set_extensions and add_extension: names of 3, 2 and 9
\* characters, and entries without a one-character namespace and '-'.
ExtensionArgs == {"a-bar", "u-ca", "a-abcdefghi", "ab-cde", "abcde"}

NextTag ==
    \/ \E l \in {"fr"} : SetLang(l)
    \/ \E sc \in {"", "Cyrl"} : SetScript(sc)
    \/ \E r \in {"", "GB"} : SetRegion(r)
    \/ \E vs \in {<<>>, <<"valencia", "fonipa">>} : SetVariants(vs)
    \/ \E v \in {"1996"} : PushVariant(v)
    \/ PopVariant
    \/ \E exts \in {<<>>, <<"u-kana", "a-foo">>, <<"u-ca">>, <<"a-foo", "ab-cde">>} :
          SetExtensions(exts)
    \/ \E e \in ExtensionArgs : AddExtension(e)
    \/ \E e \in {"a-foo"} : RemoveExtension(e)
    \/ \E p \in {"", "x-new"} : SetPrivate(p)
    \/ ParseText

SpecTag == InitTag /\ [][NextTag]_vars

-----------------------------------------------------------------------------
(* Claims about the Tag value (SpecTag).                                    *)

Accessors(t) ==
    [lang |-> lang(t), script |-> script(t), region |-> region(t),
     variants |-> variants(t), extensions |-> Range(extensions(t)),
     private |-> private(t)]

AsGiven(g) ==
    [lang |-> g.lang, script |-> Opt(g.script), region |-> Opt(g.region),
     variants |-> g.variants, extensions |-> g.extensions,
     private |-> Opt(g.private)]

Mutators ==
    {"set_lang", "set_script", "set_region", "set_variants", "push_variant",
     "pop_variant", "set_extensions", "add_extension", "remove_extension",
     "set_private"}

\* The component a mutator writes.
ComponentOf(name) ==
    CASE name = "set_lang" -> "lang"
      [] name = "set_script" -> "script"
      [] name = "set_region" -> "region"
      [] name \in {"set_variants", "push_variant", "pop_variant"} -> "variants"
      [] name \in {"set_extensions", "add_extension", "remove_extension"}
           -> "extensions"
      [] name = "set_private" -> "private"

\* C10: after every mutator, applied to a tag from any constructor, each
\* accessor returns the value most recently given to its component, and the
\* mutator leaves the value of every other component's accessor unchanged.
C10_MutatorsFrameAndReadBack ==
    [][ op' \in Mutators =>
          /\ Accessors(cur') = AsGiven(given')
          /\ \A f \in DOMAIN Accessors(cur) \ {ComponentOf(op')} :
                Accessors(cur')[f] = Accessors(cur)[f] ]_vars

\* (namespace, name) pairs in non-decreasing order: by namespace, then name.
PairLess(a, b) ==
    \/ StrLess(a.namespace, b.namespace)
    \/ a.namespace = b.namespace /\ StrLess(a.name, b.name)
SortedPairs(exts) ==
    \A i \in 1..(Len(exts) - 1) : exts[i] = exts[i + 1] \/ PairLess(exts[i], exts[i + 1])

\* The subtags that write a list of pairs with each namespace once per run
\* of names sharing it.
RECURSIVE RunSubtags(_, _)
RunSubtags(exts, ns) ==
    IF exts = <<>> THEN <<>>
    ELSE (IF Head(exts).namespace = ns THEN <<Head(exts).name>>
          ELSE <<Head(exts).namespace, Head(exts).name>>)
         \o RunSubtags(Tail(exts), Head(exts).namespace)

\* The extensions part of the text of t, as its subtags.
ExtensionSubtags(t) ==
    split_terminator(Slice(t.buf,
                           IF t.end.variants < t.end.extensions
                           THEN t.end.variants + 1 ELSE t.end.variants,
                           t.end.extensions))

\* C11: in every Tag that came from the parser or from_parts, or was just
\* written by set_extensions, extensions() is sorted by namespace and then
\* name, and the text writes each namespace once per run of names.
C11_ExtensionsSortedAndElided ==
    (\/ origin \in {"parse", "from_parts"} /\ steps = 0
     \/ op = "set_extensions") =>
        /\ SortedPairs(extensions(cur))
        /\ ExtensionSubtags(cur) = RunSubtags(extensions(cur), "")


\* An extension entry as the failure model describes a malformed one: it
\* lacks the one-character namespace followed by '-', or its name has fewer
\* than 2 or more than 8 characters.
Malformed(e) ==
    \/ Len(e) < 2
    \/ CharAt(e, 1) # "-"
    \/ Len(e) - 2 < 2
    \/ Len(e) - 2 > 8

\* C12: set_lang, set_script, set_region, set_variants, push_variant,
\* pop_variant and set_private never panic; set_extensions and add_extension
\* panic exactly when some supplied entry is malformed (no one-character
\* namespace and '-', or a name whose length is outside 2..8), so an entry
\* with a 2-character name is accepted.
C12_PanicsOnlyOnMalformedEntries ==
    /\ call.name \in {"set_lang", "set_script", "set_region", "set_variants",
                      "push_variant", "pop_variant", "set_private"}
           => ~call.panicked
    /\ call.name \in {"set_extensions", "add_extension"}
           => (call.panicked <=> \E e \in Range(call.arg) : Malformed(e))


\* Extension entries with a one-character namespace, '-' and a name of 2 to
\* 8 characters.
WellFormedExtensions == {e \in ExtensionArgs \cup {"a-foo", "b-baz"} : ~Malformed(e)}

\* has_extension(e) returns, and returns true exactly when (namespace, name)
\* of e is among the pairs of extensions().
HasExtensionIffListed(t) ==
    \A e \in WellFormedExtensions :
        /\ ~find_extension_panics(t, e)
        /\ has_extension(t, e) <=> PairOf(e) \in Range(extensions(t))

\* After add_extension(e): e is present, nothing that was present is lost,
\* and adding e again changes nothing.
AddedExtension(t, e, after) ==
    /\ ~find_extension_panics(after, e)
    /\ has_extension(after, e)
    /\ Range(extensions(t)) \subseteq Range(extensions(after))
    /\ add_extension(after, e) = after

\* After remove_extension(e): it returned true exactly when e was present, e
\* is absent and nothing else has changed.
RemovedExtension(t, e, after) ==
    /\ find_extension(t, e).ok <=> PairOf(e) \in Range(extensions(t))
    /\ ~find_extension_panics(after, e)
    /\ ~has_extension(after, e)
    /\ Range(extensions(after)) = Range(extensions(t)) \ {PairOf(e)}
    /\ \A f \in DOMAIN Accessors(t) \ {"extensions"} :
           Accessors(after)[f] = Accessors(t)[f]

\* C26: in every Tag, the parser's included, has_extension(e) of a
\* well-formed e is true iff e is among extensions(); add_extension(e) makes
\* e present, keeps the others and is idempotent; remove_extension(e) returns
\* true iff e was present, makes it absent and changes nothing else.
C26_ExtensionMembership ==
    /\ []HasExtensionIffListed(cur)
    /\ [][ /\ (op' = "add_extension" /\ call'.arg[1] \in WellFormedExtensions)
                => AddedExtension(cur, call'.arg[1], cur')
           /\ (op' = "remove_extension" /\ call'.arg[1] \in WellFormedExtensions)
                => RemovedExtension(cur, call'.arg[1], cur') ]_vars

\* The text has no '-' at either end and no two in a row.
NoStrayDash(text) ==
    /\ text # "" => (CharAt(text, 0) # "-" /\ CharAt(text, Len(text) - 1) # "-")
    /\ \A i \in 1..(Len(text) - 1) : SubSeq(text, i, i + 1) # "--"

\* A component's bytes: none, or one '-' and then its text.
Separated(bytes) ==
    bytes = "" \/ (Len(bytes) >= 2 /\ CharAt(bytes, 0) = "-"
                                  /\ NoStrayDash(SliceFrom(bytes, 1)))

\* _component_range! of the component a setter writes, as [start, stop].
RangeOf(t, name) ==
    CASE name = "set_script" -> [start |-> t.end.lang, stop |-> t.end.script]
      [] name = "set_region" -> [start |-> t.end.script, stop |-> t.end.region]
      [] name = "set_variants" -> [start |-> t.end.region, stop |-> t.end.variants]
      [] name = "set_extensions" ->
            [start |-> t.end.variants, stop |-> t.end.extensions]
      [] name = "set_private" -> [start |-> t.end.extensions, stop |-> Len(t.buf)]

\* The text a setter call writes for its argument.
WrittenText(c) ==
    CASE c.name \in {"set_script", "set_region", "set_private"} -> c.arg[1]
      [] c.name = "set_variants" -> join(c.arg, "-")
      [] c.name = "set_extensions" ->
            IF c.arg = <<>> THEN ""
            ELSE join(ElideSorted(sort_unstable(c.arg), ""), "-")

\* The offsets are ordered and every component is separated.
OffsetsOrdered(t) ==
    /\ 0 < t.end.lang
    /\ t.end.lang <= t.end.script
    /\ t.end.script <= t.end.region
    /\ t.end.region <= t.end.variants
    /\ t.end.variants <= t.end.extensions
    /\ t.end.extensions <= Len(t.buf)
ComponentsSeparated(t) ==
    /\ \A name \in {"set_script", "set_region", "set_variants", "set_extensions",
                     "set_private"} :
           Separated(Slice(t.buf, RangeOf(t, name).start, RangeOf(t, name).stop))
    /\ NoStrayDash(t.buf)

\* set_private(""), set_extensions([]), set_variants([]), set_region("") and
\* set_script("") in turn.
ClearAll(t) ==
    set_script(set_region(set_variants(set_extensions(set_private(t, ""), <<>>),
                                       <<>>), ""), "")

\* What a setter call did to the text: a value written into an empty
\* component adds '-' and the value, an empty value removes the component's
\* bytes, and the bytes before and after the component stay.
SetterStep(t, c, after) ==
    LET r == RangeOf(t, c.name)
        text == WrittenText(c)
        before == Slice(t.buf, 0, r.start)
        rest == SliceFrom(t.buf, r.stop)
    IN /\ (text # "" /\ r.start = r.stop) => after.buf = before \o "-" \o text \o rest
       /\ text = "" => after.buf = before \o rest
       /\ (text = "" /\ r.start = r.stop) => after = t

MadePrivateOnly ==
    /\ given = Given("", "", "", <<>>, {}, given.private)
    /\ given.private # ""
    /\ \/ origin \in {"privateuse", "from_parts", "parse"} /\ steps = 0
       \/ origin = "default" /\ steps = 1 /\ op = "set_private"

\* C28: a tag with empty lang and only a private part p, from privateuse(p),
\* from_parts("", .., p), the parser or set_private(p) on the default tag,
\* has the text p with no leading '-', is_privateuse() true, lang() empty
\* and private() returning p with its x- prefix.
C28_PurePrivateUse ==
    MadePrivateOnly =>
        /\ to_string(cur) = given.private
        /\ is_privateuse(cur)
        /\ lang(cur) = ""
        /\ private(cur) = Some(given.private)

-----------------------------------------------------------------------------
(* Tags whose text passes 255 bytes: the u8 offsets of struct Offsets.      *)

\* Variant lists of 0, 135 and 261 bytes of text with separators.
Variant8 == "abcdefgh"
LongVariants == {<<>>, [i \in 1..15 |-> Variant8], [i \in 1..29 |-> Variant8]}

InitLong ==
    /\ op = "new"
    /\ steps = 0
    /\ reparsed = None
    /\ call = NoCall
    /\ origin = "with_lang"
    /\ \E l \in {"en", "art-lojban"} :
          /\ cur = with_lang(l)
          /\ given = Given(l, "", "", <<>>, {}, "")
    /\ IdleDb
    /\ IdleParser
    /\ IdleCmp
    /\ IdleWeb
    /\ IdleConc

NextLong ==
    \/ \E l \in {"fr"} : SetLang(l)
    \/ \E sc \in {"", "Cyrl"} : SetScript(sc)
    \/ \E r \in {"", "GB"} : SetRegion(r)
    \/ \E vs \in LongVariants : SetVariants(vs)
    \/ \E v \in {"1996"} : PushVariant(v)
    \/ PopVariant
    \/ \E p \in {"", "x-new"} : SetPrivate(p)

SpecLong == InitLong /\ [][NextLong]_vars

\* The byte position where each component given ends in the text written
\* from them (no extensions are given in SpecLong).
TrueOffsets(g) ==
    LET l == Len(g.lang)
        sc == l + (IF g.script = "" THEN 0 ELSE 1 + Len(g.script))
        r == sc + (IF g.region = "" THEN 0 ELSE 1 + Len(g.region))
        v == r + (IF g.variants = <<>> THEN 0 ELSE 1 + Len(join(g.variants, "-")))
    IN Offsets(l, sc, r, v, v)

\* C30: whatever the length of the text, and when one mutation changes it by
\* more than 127 bytes, every stored offset is the byte position where its
\* component ends, no mutator panics and lang(), script(), region() and
\* private() return the components as given.
C30_OffsetsAreTruePositions ==
    /\ cur.end = TrueOffsets(given)
    /\ ~call.panicked
    /\ lang(cur) = given.lang
    /\ script(cur) = Opt(given.script)
    /\ region(cur) = Opt(given.region)
    /\ private(cur) = Opt(given.private)

-----------------------------------------------------------------------------
(* Comparing Tags: ==, hash and cmp on a pair of Tags.                      *)

\* The Tags compared, each with the lang, script and region it was written
\* from ("" for none).
CmpCase(text, l, sc, r) == [text |-> text, lang |-> l, script |-> sc, region |-> r]
CmpCases ==
    << CmpCase("", "", "", ""),
       CmpCase("aa", "aa", "", ""),
       CmpCase("aa-ET", "aa", "", "ET"),
       CmpCase("aa-Latn", "aa", "Latn", ""),
       CmpCase("aa-Latn-ET", "aa", "Latn", "ET"),
       CmpCase("AA-latn-et", "AA", "latn", "et"),
       CmpCase("aa-Latn-ET-fonipa", "aa", "Latn", "ET"),
       CmpCase("AA-latn-et-x-priv", "AA", "latn", "et"),
       CmpCase("aa-ET-u-kana", "aa", "", "ET"),
       CmpCase("aa-DE", "aa", "", "DE"),
       CmpCase("aa-Cyrl", "aa", "Cyrl", ""),
       CmpCase("aa-x-priv", "aa", "", ""),
       CmpCase("a0-ET", "a0", "", "ET"),
       CmpCase("aaa", "aaa", "", ""),
       CmpCase("Ab-Latn", "Ab", "Latn", ""),
       CmpCase("x-priv", "", "", "") >>

\* The Tag of each case: Tag::default() for the empty text, the parser's
\* Tag for the others.
CmpTags ==
    [i \in 1..Len(CmpCases) |->
        IF CmpCases[i].text = "" THEN default
        ELSE from_str(CmpCases[i].text)[1]]

InitCmp ==
    /\ op = "new"
    /\ \E i, j \in 1..Len(CmpCases) :
          /\ lhs = CmpTags[i]
          /\ rhs = CmpTags[j]
    /\ compared = NoCompared
    /\ IdleDb
    /\ IdleParser
    /\ IdleTag
    /\ IdleWeb
    /\ IdleConc

\* lhs == rhs.
Eq ==
    /\ op' = "eq"
    /\ compared' = [NoCompared EXCEPT !.eq = TagEq(lhs, rhs)]
    /\ UNCHANGED <<lhs, rhs, dbVars, parserVars, tagVars, webVars, concVars>>

\* lhs.hash(state) and rhs.hash(state).
Hash ==
    /\ op' = "hash"
    /\ compared' = [NoCompared EXCEPT !.hash = <<hash(lhs), hash(rhs)>>]
    /\ UNCHANGED <<lhs, rhs, dbVars, parserVars, tagVars, webVars, concVars>>

\* lhs.cmp(&rhs) and rhs.cmp(&lhs).
Cmp ==
    /\ op' = "cmp"
    /\ compared' = [NoCompared EXCEPT !.ord = Tag_cmp(lhs, rhs),
                                      !.rev = Tag_cmp(rhs, lhs)]
    /\ UNCHANGED <<lhs, rhs, dbVars, parserVars, tagVars, webVars, concVars>>

NextCmp == Eq \/ Hash \/ Cmp

SpecCmp == InitCmp /\ [][NextCmp]_vars

\* Two texts are equal ignoring ASCII case: the same length, and at every
\* position the same character or the two cases of one letter.
SameIgnoringCase(a, b) ==
    /\ Len(a) = Len(b)
    /\ \A i \in 1..Len(a) :
          \/ SubSeq(a, i, i) = SubSeq(b, i, i)
          \/ \E k \in 1..Len(UpperChars) :
                {SubSeq(a, i, i), SubSeq(b, i, i)}
                    = {SubSeq(UpperChars, k, k), SubSeq(LowerChars, k, k)}

\* The case-folded (lang, script, region) of a Tag, from the case it was
\* written as; an absent script or region is the empty sequence.
KeyOf(t) ==
    LET c == CHOOSE c \in Range(CmpCases) : c.text = t.buf
    IN << <<to_ascii_lowercase(c.lang)>>,
          IF c.script = "" THEN <<>> ELSE <<to_ascii_lowercase(c.script)>>,
          IF c.region = "" THEN <<>> ELSE <<to_ascii_lowercase(c.region)>> >>

\* Lexicographic order of keys: at the first position where they differ, an
\* absent part comes before a present one, and present parts compare as
\* strings.
KeyLess(x, y) ==
    \E i \in 1..3 :
        /\ \A j \in 1..(i - 1) : x[j] = y[j]
        /\ x[i] # y[i]
        /\ \/ x[i] = <<>>
           \/ y[i] # <<>> /\ StrLess(x[i][1], y[i][1])

LessOrEqual(a, b) == Tag_cmp(a, b) \in {"Less", "Equal"}

\* C13: two Tags are equal iff their texts are equal ignoring ASCII case,
\* and equal Tags hash alike; cmp orders Tags by their case-folded (lang,
\* script, region) only, an absent script or region before a present one
\* (aa < aa-ET < aa-Latn < aa-Latn-ET), whatever their variants, extensions
\* and private parts; any two Tags are comparable, and the order is
\* transitive.
C13_EqHashOrd ==
    /\ op = "eq" => (compared.eq <=> SameIgnoringCase(lhs.buf, rhs.buf))
    /\ op = "hash" =>
          (SameIgnoringCase(lhs.buf, rhs.buf) => compared.hash[1] = compared.hash[2])
    /\ op = "cmp" =>
          /\ compared.ord = (IF KeyOf(lhs) = KeyOf(rhs) THEN "Equal"
                             ELSE IF KeyLess(KeyOf(lhs), KeyOf(rhs)) THEN "Less"
                             ELSE "Greater")
          /\ compared.rev = (IF compared.ord = "Less" THEN "Greater"
                             ELSE IF compared.ord = "Greater" THEN "Less"
                             ELSE "Equal")
          /\ \A k \in 1..Len(CmpCases) :
                compared.ord \in {"Less", "Equal"} /\ LessOrEqual(rhs, CmpTags[k])
                    => LessOrEqual(lhs, CmpTags[k])
          /\ <<lhs.buf, rhs.buf>> \in {<<"aa", "aa-ET">>, <<"aa-ET", "aa-Latn">>,
                                       <<"aa-Latn", "aa-Latn-ET">>}
                => compared.ord = "Less"

C13_Witness ==
    /\ op = "cmp"
    /\ lhs.buf = "aa-Latn-ET-fonipa"
    /\ rhs.buf = "AA-latn-et-x-priv"
    /\ compared.ord = "Equal"
    /\ ~TagEq(lhs, rhs)


-----------------------------------------------------------------------------
(* ldml-api: toggles (toggle.rs), profiles (config.rs), the ETag            *)
(* middleware (etag.rs), and the router and its handlers (lib.rs).          *)

\* str::find(c) from byte offset i: the offset of the first c, or -1.
RECURSIVE Find(_, _, _)
Find(s, c, i) ==
    IF i >= Len(s) THEN -1
    ELSE IF CharAt(s, i) = c THEN i ELSE Find(s, c, i + 1)

Min(S) == CHOOSE i \in S : \A j \in S : i <= j
Max(S) == CHOOSE i \in S : \A j \in S : i >= j

\* Uri::path and Uri::query of a request target.
uri_path(uri) ==
    LET Cut(q) == IF q < 0 THEN uri ELSE Slice(uri, 0, q)
    IN Cut(Find(uri, "?", 0))
uri_query(uri) ==
    LET Cut(q) == IF q < 0 THEN None ELSE Some(SliceFrom(uri, q + 1))
    IN Cut(Find(uri, "?", 0))

\* The printable ASCII characters in byte order: 0x20 to 0x5f, and 0x61 to
\* 0x7e (a TLA+ string cannot hold 0x60, which no request of the model has).
PrintableLow ==
    " !\"#$%&'()*+,-./0123456789:;<=>?@ABCDEFGHIJKLMNOPQRSTUVWXYZ[\\]^_"
PrintableHigh == "abcdefghijklmnopqrstuvwxyz{|}~"
Printable == PrintableLow \o PrintableHigh
ByteChar(b) ==
    IF b < 96 THEN Slice(PrintableLow, b - 32, b - 31)
    ELSE Slice(PrintableHigh, b - 97, b - 96)
HexDigits == "0123456789abcdef"
HexValue(c) ==
    IF IndexIn(HexDigits, c) > 0 THEN IndexIn(HexDigits, c) - 1
    ELSE IF IndexIn("ABCDEF", c) > 0 THEN IndexIn("ABCDEF", c) + 9
    ELSE -1

\* form_urlencoded's decode of a name or value: '+' is a space and %XX the
\* byte XX; a '%' not followed by two hex digits stays as it is.
RECURSIVE decode(_)
decode(s) ==
    LET Byte(hi, lo) ==
            IF hi < 0 \/ lo < 0 \/ 16 * hi + lo < 32 \/ 16 * hi + lo > 126
               \/ 16 * hi + lo = 96
            THEN "%" \o decode(SliceFrom(s, 1))
            ELSE ByteChar(16 * hi + lo) \o decode(SliceFrom(s, 3))
    IN IF s = "" THEN ""
       ELSE IF Slice(s, 0, 1) = "+" THEN " " \o decode(SliceFrom(s, 1))
       ELSE IF Slice(s, 0, 1) = "%" /\ Len(s) >= 3
       THEN Byte(HexValue(Slice(s, 1, 2)), HexValue(Slice(s, 2, 3)))
       ELSE Slice(s, 0, 1) \o decode(SliceFrom(s, 1))

\* form_urlencoded::parse: the (name, value) pairs of a query in order; a
\* piece without '=' has the empty value and an empty piece is skipped.
RECURSIVE form_urlencoded(_)
form_urlencoded(q) ==
    LET Pair(piece, eq) ==
            IF piece = "" THEN <<>>
            ELSE IF eq < 0 THEN << <<decode(piece), "">> >>
            ELSE << <<decode(Slice(piece, 0, eq)),
                      decode(SliceFrom(piece, eq + 1))>> >>
        Piece(piece) == Pair(piece, Find(piece, "=", 0))
        Rest(amp) ==
            IF amp < 0 THEN Piece(q)
            ELSE Piece(Slice(q, 0, amp)) \o form_urlencoded(SliceFrom(q, amp + 1))
    IN IF q = "" THEN <<>> ELSE Rest(Find(q, "&", 0))

\* The pairs of a request target ("" and no query alike give none).
query_pairs(uri) ==
    LET Pairs(q) == IF q = None THEN <<>> ELSE form_urlencoded(q[1])
    IN Pairs(uri_query(uri))

\* Deserializing the pairs into a HashMap: a later pair of the same name
\* replaces an earlier one.
RECURSIVE collect_map(_, _)
collect_map(pairs, map) ==
    IF pairs = <<>> THEN map
    ELSE collect_map(Tail(pairs),
                     [k \in DOMAIN map \cup {Head(pairs)[1]} |->
                         IF k = Head(pairs)[1] THEN Head(pairs)[2] ELSE map[k]])

\* Deserializing the pairs into a struct: the value of the named field, None
\* when no pair has that name.
field(pairs, name) ==
    LET At(idx) == IF idx = {} THEN None ELSE Some(pairs[Min(idx)][2])
    IN At({i \in 1..Len(pairs) : pairs[i][1] = name})

\* The struct is rejected when one of its fields is given twice or its query
\* field is not a variant of LDMLQuery.
LDMLQuery == {"alltags", "langtags", "tags"}
query_rejected(pairs, names) ==
    \/ \E i, j \in 1..Len(pairs) :
          i < j /\ pairs[i][1] = pairs[j][1] /\ pairs[i][1] \in names
    \/ \E i \in 1..Len(pairs) :
          pairs[i][1] = "query" /\ "query" \in names /\ pairs[i][2] \notin LDMLQuery

\* impl FromStr for Toggle.
Toggle_from_str(s) == s \notin {"", "0", "no", "false", "off"}

\* A profile: its directories are named after it here.
Config(name) ==
    [name |-> name, langtags_dir |-> name \o "/short", sldr_dir |-> name \o "/sldr",
     sendfile_method |-> IF name = "production" THEN Some("X-Accel-Redirect") ELSE None]

\* Profiles::fallback.
fallback(profs) == profs[1]

\* Profiles::set_fallback; the message is the Display of the Error.
set_fallback(profs, name) ==
    LET Swapped(idx) ==
            [i \in 1..Len(profs) |->
                IF i = 1 THEN profs[idx]
                ELSE IF i = idx THEN profs[1] ELSE profs[i]]
        At(pos) ==
            IF pos = {}
            THEN [ok |-> FALSE, profiles |-> <<>>,
                  message |-> "default profile \"" \o name \o "\" not in config"]
            ELSE [ok |-> TRUE, profiles |-> Swapped(Min(pos)), message |-> ""]
    IN At({i \in 1..Len(profs) : profs[i].name = name})

\* profile_selector without the Toggle: a profile is selected as soon as its
\* name is a query parameter.
profile_selector_any_value(profs, uri) ==
    LET Found(sel) == IF sel = {} THEN fallback(profs) ELSE profs[Min(sel)]
        Named(qs) == Found({i \in 1..Len(profs) : profs[i].name \in DOMAIN qs})
    IN Named(collect_map(query_pairs(uri), [k \in {} |-> ""]))

\* The profile fn profile_selector attaches to the request.
profile_selector(profs, uri) ==
    LET Found(sel) == IF sel = {} THEN fallback(profs) ELSE profs[Min(sel)]
        Toggles(qs) ==
            Found({i \in 1..Len(profs) :
                      /\ profs[i].name \in DOMAIN qs
                      /\ Toggle_from_str(qs[profs[i].name])})
    IN Toggles(collect_map(query_pairs(uri), [k \in {} |-> ""]))


\* str::rfind(c) at or before byte offset i: the offset of the last c, or -1.
RECURSIVE RFind(_, _, _)
RFind(s, c, i) ==
    IF i < 0 THEN -1
    ELSE IF CharAt(s, i) = c THEN i ELSE RFind(s, c, i - 1)

\* Path::file_name and Path::with_extension on the text of a path.
file_name(path) == SliceFrom(path, RFind(path, "/", Len(path) - 1) + 1)
with_extension(path, ext) ==
    LET Stem(dot, slash) == IF dot > slash + 1 THEN Slice(path, 0, dot) ELSE path
        Set(stem) == IF ext = "" THEN stem ELSE stem \o "." \o ext
    IN Set(Stem(RFind(path, ".", Len(path) - 1), RFind(path, "/", Len(path) - 1)))

\* A strong ETag and a response.
ETag(tag) == [weak |-> FALSE, tag |-> tag]
Response(status, body) == [NoResponse EXCEPT !.status = status, !.body = body]

\* etag::from_metadata: a strong ETag of the hash of the file's modification
\* time and length (the hash is written as the two numbers it is taken of);
\* None when the file is missing.
from_metadata(dsk, path) ==
    IF path \notin DOMAIN dsk THEN None
    ELSE Some(ETag(ToString(dsk[path].modified) \o "." \o ToString(dsk[path].len)))

\* etag::revid::from_ldml: the revid attribute in the first 4K of the file.
from_ldml(dsk, path) ==
    IF path \notin DOMAIN dsk \/ dsk[path].revid = "" THEN None
    ELSE Some(ETag(dsk[path].revid))

\* IfNoneMatch::precondition_passes: no tag of the header equals the
\* response's, weak or strong.
precondition_passes(if_none_match, etag) == if_none_match.tag # etag.tag

\* etag::layer, after the inner service answered r.
layer(header, r) ==
    IF header # None /\ r.etag # None /\ ~precondition_passes(header[1], r.etag[1])
    THEN [r EXCEPT !.status = 304]
    ELSE r

\* Param::into_header's parse of "\"{id}\"" as an ETag: every byte of id is
\* 0x21 or 0x23..0x7e (the model has no byte above 0x7e).
entity_tag_valid(id) ==
    \A i \in 1..Len(id) :
        SubSeq(id, i, i) \notin {" ", "\""} /\ IndexIn(Printable, SubSeq(id, i, i)) > 0

\* A converter that hands the request on as it came.
converter_without_revid(pairs, header) ==
    [ok |-> TRUE, header |-> header, rsp |-> NoResponse]

\* etag::revid::converter: the If-None-Match header handed on, or the
\* response that ends the request.
converter(pairs, header) ==
    LET Header(id) ==
            IF id = None THEN [ok |-> TRUE, header |-> header, rsp |-> NoResponse]
            ELSE IF ~entity_tag_valid(id[1])
            THEN [ok |-> FALSE, header |-> None, rsp |-> Response(422, <<>>)]
            ELSE [ok |-> TRUE, header |-> Some(ETag(id[1])), rsp |-> NoResponse]
    IN IF query_rejected(pairs, {"revid"})
       THEN [ok |-> FALSE, header |-> None,
             rsp |-> Response(400, <<"text", "Failed to deserialize query string">>)]
       ELSE Header(field(pairs, "revid"))

\* fn stream_file_as.
stream_file_as(dsk, path, filename) ==
    IF path \notin DOMAIN dsk
    THEN Response(404, <<"text", "Cannot open: " \o file_name(path)>>)
    ELSE [Response(200, <<"file", path>>) EXCEPT
            !.etag = from_metadata(dsk, path), !.filename = filename]

\* fn stream_file.
stream_file(dsk, path) == stream_file_as(dsk, path, file_name(path))

\* The handler of /langtags.{ext}.
langtags(dsk, ext, cfg) ==
    stream_file(dsk, with_extension(cfg.langtags_dir \o "/langtags", ext))

\* fn query_only; cfg is None when no layer attached a profile, and the
\* Extension extractor then rejects the request.
query_only(pairs, cfg) ==
    LET Target(ext) ==
            "/langtags." \o (IF ext = None THEN "txt" ELSE ext[1]) \o "?" \o cfg[1].name
        Match(query) ==
            CASE query = Some("alltags") ->
                    Response(404, <<"text", "LDML SERVER ERROR: The alltags file is obsolete. Please use 'query=langtags'.">>)
              [] query = Some("langtags") ->
                    [Response(308, <<>>) EXCEPT !.location = Target(field(pairs, "ext"))]
              [] query = Some("tags") ->
                    Response(400, <<"text", "LDML SERVER ERROR: query=tags requires a ws_id">>)
              [] query = None -> Response(200, <<"html", "index.html">>)
        Tagged(ws) ==
            IF ws # None /\ from_str(ws[1]) = None
            THEN Response(400, <<"text", "Failed to deserialize query string">>)
            ELSE IF cfg = None
            THEN Response(500, <<"text", "Missing request extension">>)
            ELSE Match(field(pairs, "query"))
    IN IF query_rejected(pairs, {"_ws_id", "query", "ext"})
       THEN Response(400, <<"text", "Failed to deserialize query string">>)
       ELSE Tagged(field(pairs, "_ws_id"))

\* TagSet::region_sets: for each alternate region, the iter() tags that have
\* a region, with that region set.
region_sets(ts) ==
    LET HasRegion(t) == region(t) # None
        Sets(prototypes) ==
            [k \in 1..Len(ts.regions) |->
                [i \in 1..Len(prototypes) |-> set_region(prototypes[i], ts.regions[k])]]
    IN Sets(SelectSeq(iter(ts), HasRegion))

\* variant_sets as it would be without the region sets: one set per variant
\* for the iter() tags only.
variant_sets_base_only(ts) ==
    [k \in 1..Len(ts.variants) |->
        [i \in 1..Len(iter(ts)) |-> push_variant(iter(ts)[i], ts.variants[k])]]

\* TagSet::variant_sets: for the iter() tags and then each region set, one
\* set per variant with the variant pushed on every tag.
variant_sets(ts) ==
    LET Pushed(prototype, variant) ==
            [i \in 1..Len(prototype) |-> push_variant(prototype[i], variant)]
        Sets(prototypes, n) ==
            [k \in 1..(Len(prototypes) * n) |->
                Pushed(prototypes[((k - 1) \div n) + 1], ts.variants[((k - 1) % n) + 1])]
    IN Sets(<<iter(ts)>> \o region_sets(ts), Len(ts.variants))

\* fn render_equivalence_set (its unwrap panics on an empty set).
render_equivalence_set(set) == join([i \in 1..Len(set) |-> to_string(set[i])], "=")

\* fn query_tags: Some(text), None, or a panic of render_equivalence_set.
query_tags(ws, lts) ==
    LET Rendered(sets) == [i \in 1..Len(sets) |-> render_equivalence_set(sets[i])]
        Lines(sets) ==
            IF <<>> \in Range(sets) THEN [kind |-> "Panic", text |-> ""]
            ELSE [kind |-> "Some", text |-> join(Rendered(sets), "\n")]
        Row(ts) == Lines(<<iter(ts)>> \o region_sets(ts) \o variant_sets(ts))
        Found(idx) ==
            IF idx = None THEN [kind |-> "None", text |-> ""]
            ELSE Row(lts.tagsets[idx[1]])
    IN Found(orthographic_normal_form(lts, ws))

\* find_ldml_file as it would be with find in place of rfind: the first of
\* the row's iter() tags that has a file.
find_ldml_file_first(dsk, ws, sldr_dir, lts) ==
    LET First(paths, existing) ==
            IF existing = {} THEN None ELSE Some(paths[Min(existing)])
        Paths(paths) == First(paths, {i \in 1..Len(paths) : paths[i] \in DOMAIN dsk})
        Row(dir, tags) ==
            Paths([i \in 1..Len(tags) |->
                      with_extension(dir \o "/" \o replace_dash(tags[i].buf), "xml")])
        Found(idx) ==
            IF idx = None THEN None
            ELSE Row(sldr_dir \o "/" \o Slice(lang(lts.tagsets[idx[1]].full), 0, 1),
                     iter(lts.tagsets[idx[1]]))
    IN Found(orthographic_normal_form(lts, ws))

\* fn find_ldml_file: the last of the row's iter() tags that has a file.
find_ldml_file(dsk, ws, sldr_dir, lts) ==
    LET Last(paths, existing) ==
            IF existing = {} THEN None ELSE Some(paths[Max(existing)])
        Paths(paths) == Last(paths, {i \in 1..Len(paths) : paths[i] \in DOMAIN dsk})
        Row(dir, tags) ==
            Paths([i \in 1..Len(tags) |->
                      with_extension(dir \o "/" \o replace_dash(tags[i].buf), "xml")])
        Found(idx) ==
            IF idx = None THEN None
            ELSE Row(sldr_dir \o "/" \o Slice(lang(lts.tagsets[idx[1]].full), 0, 1),
                     iter(lts.tagsets[idx[1]]))
    IN Found(orthographic_normal_form(lts, ws))

\* fn fetch_writing_system_ldml, for a request with neither inc[] nor uid.
fetch_writing_system_ldml(dsk, ws, pairs, cfg, lts) ==
    LET Headers(etag, r) ==
            IF r.status = 200 /\ etag # None THEN [r EXCEPT !.etag = etag] ELSE r
        Stream(path, ext) ==
            Headers(IF from_ldml(dsk, path) # None THEN from_ldml(dsk, path)
                    ELSE from_metadata(dsk, path),
                    stream_file_as(dsk, path, file_name(with_extension(path, ext))))
        Found(path, ext) ==
            IF path = None THEN Response(404, <<"text", "No LDML for " \o to_string(ws)>>)
            ELSE Stream(path[1], IF ext = None THEN "xml" ELSE ext[1])
        Flat(flatten) ==
            Found(find_ldml_file(dsk, ws,
                                 cfg.sldr_dir \o (IF flatten = None \/ Toggle_from_str(flatten[1])
                                                  THEN "/flat" ELSE "/unflat"),
                                 lts),
                  field(pairs, "ext"))
    IN Flat(field(pairs, "flatten"))

\* fn demux_writing_system, after the Path and Query extractors.
demux_writing_system(dsk, ws_id, pairs, cfg, lts) ==
    LET Tags(ws, found) ==
            CASE found.kind = "Some" -> Response(200, <<"text", found.text>>)
              [] found.kind = "None" ->
                    Response(404, <<"text", "No tagsets found for tag: " \o to_string(ws)>>)
              [] found.kind = "Panic" -> Response(0, <<"panic">>)
        Match(ws, query) ==
            IF query = None THEN fetch_writing_system_ldml(dsk, ws, pairs, cfg, lts)
            ELSE IF query = Some("tags") THEN Tags(ws, query_tags(ws, lts))
            ELSE Response(400, <<"text", "query=alltags, or query=langtags is only valid without a ws_id.">>)
        Parsed(ws) ==
            IF ws = None THEN Response(400, <<"text", "Invalid URL">>)
            ELSE IF query_rejected(pairs, {"query", "ext", "flatten", "inc[]", "uid"})
            THEN Response(400, <<"text", "Failed to deserialize query string">>)
            ELSE Match(ws[1], field(pairs, "query"))
    IN Parsed(from_str(ws_id))


\* The route of fn app a path is matched by.
route(path) ==
    IF path \in {"/", "/index.html"} THEN "root"
    ELSE IF path = "/status" THEN "status"
    ELSE IF Len(path) < 2 \/ Find(path, "/", 1) >= 0 THEN "fallback"
    ELSE IF Len(path) > 10 /\ Slice(path, 0, 10) = "/langtags." THEN "langtags"
    ELSE "ws_id"

\* fn app, route by route: the response of the route's handler and the
\* response of the application.  Router::layer wraps the routes added before
\* it: etag::layer wraps /langtags.{ext}; etag::layer and, outside it,
\* revid::converter wrap /{ws_id}; profile_selector wraps those two, / and
\* /index.html, but neither /status nor the fallback, which are added after
\* it.
Attach(cfg, r) == [r EXCEPT !.profile = Some(cfg.name)]
Answer(r, final) == [handled |-> r, rsp |-> final]

app_root(profs, rq) ==
    LET Selected(cfg, pairs) == Attach(cfg, query_only(pairs, Some(cfg)))
        Handled(r) == Answer(r, r)
    IN Handled(Selected(profile_selector(profs, rq.uri), query_pairs(rq.uri)))

app_langtags(profs, dsk, rq) ==
    LET Selected(cfg) == Attach(cfg, langtags(dsk, SliceFrom(uri_path(rq.uri), 10), cfg))
        Handled(r) == Answer(r, layer(rq.if_none_match, r))
    IN Handled(Selected(profile_selector(profs, rq.uri)))

\* The /{ws_id} route under the profile_selector layer: revid::converter,
\* etag::layer and the handler, for a request whose extensions hold cfg.
ws_id_service(dsk, rq, cfg, lts) ==
    LET Handled(header, r) == Answer(r, layer(header, r))
        Rejected(r) == Answer(r, r)
        Converted(pairs, conv) ==
            IF ~conv.ok THEN Rejected(Attach(cfg, conv.rsp))
            ELSE Handled(conv.header,
                         Attach(cfg, demux_writing_system(dsk, SliceFrom(uri_path(rq.uri), 1),
                                                          pairs, cfg, lts)))
        Queried(pairs) == Converted(pairs, converter(pairs, rq.if_none_match))
    IN Queried(query_pairs(rq.uri))

app_ws_id(profs, dsk, rq, lts) ==
    ws_id_service(dsk, rq, profile_selector(profs, rq.uri), lts)

\* fn status: the JSON document built once, when the Router is built.  The
\* profiles object is keyed by name; sendfile is None where the key is absent;
\* api and date are those of the version header of the test corpus.
status(profs, lts) ==
    [service |-> "ldml-api",
     profiles |->
         [name \in {profs[i].name : i \in 1..Len(profs)} |->
             [langtags |-> [api |-> "1.3", date |-> "2023-02-20",
                            tagsets |-> Len(lts.tagsets)],
              sendfile |-> (CHOOSE cfg \in Range(profs) : cfg.name = name).sendfile_method]]]

app_status(profs, lts) ==
    LET Handled(r) == Answer(r, r)
    IN Handled(Response(200, <<"json", status(profs, lts)>>))

app_fallback(rq) ==
    LET Handled(r) == Answer(r, r)
    IN Handled(query_only(query_pairs(rq.uri), None))

-----------------------------------------------------------------------------
(* The application serving requests.                                        *)

\* Rows of the test corpus tests/short/langtags.json.
CorpusTexts ==
    << Json("aa-Latn-ET", "aa", <<"aa-ET", "aa-Latn">>, <<>>, <<>>, FALSE, "Afar"),
       Json("eka-Latn-NG", "eka", <<"eka-Latn", "eka-NG">>, <<>>, <<>>, FALSE,
            "Ekajuk"),
       Json("eka-Latn-NG-x-ekajuk", "eka-Latn-NG-x-ekajuk", <<>>, <<>>, <<>>,
            FALSE, "Ekajuk"),
       Json("frm-Latn-FR", "frm", <<"frm-FR", "frm-Latn">>, <<"BE">>,
            <<"1606nict">>, FALSE, "Middle French (ca. 1400-1600)"),
       Json("thv-Latn-DZ", "thv", <<"thv-DZ", "thv-Latn">>, <<"LY", "NE">>, <<>>,
            FALSE, "Tamahaq, Tahaggart"),
       Json("thv-Latn-DZ-x-ahaggar", "thv-Latn-DZ-x-ahaggar", <<>>, <<>>, <<>>,
            FALSE, "Tamahaq, Tahaggart") >>

Corpus ==
    [i \in 1..Len(CorpusTexts) |->
        TagSet(CorpusTexts[i].full, CorpusTexts[i].tag, CorpusTexts[i].tags,
               CorpusTexts[i].regions, CorpusTexts[i].variants,
               CorpusTexts[i].nophonvars, CorpusTexts[i].name)]

CorpusDb ==
    build_caches(Corpus, {"simple"},
                 {"alalc97", "fonipa", "fonkirsh", "fonnapa", "fonupa", "fonxsamp"})

\* The files of one profile: the langtags files and the flat LDML files of
\* the rows kept in the SLDR, some carrying a revid attribute.
File(modified, len, revid) == [modified |-> modified, len |-> len, revid |-> revid]
ProfileFiles(cfg) ==
    (cfg.langtags_dir \o "/langtags.json" :> File(1, 700, "")) @@
    (cfg.langtags_dir \o "/langtags.txt" :> File(1, 300, "")) @@
    (cfg.sldr_dir \o "/flat/a/aa.xml" :> File(2, 90, "")) @@
    (cfg.sldr_dir \o "/flat/e/eka.xml" :> File(2, 80, "c0ffee")) @@
    (cfg.sldr_dir \o "/flat/e/eka_Latn_NG_x_ekajuk.xml" :> File(2, 85, "beef01")) @@
    (cfg.sldr_dir \o "/flat/t/thv.xml" :> File(3, 60, "")) @@
    (cfg.sldr_dir \o "/flat/t/thv_Latn_DZ_x_ahaggar.xml" :> File(3, 65, ""))

RECURSIVE Files(_)
Files(profs) ==
    IF profs = <<>> THEN [p \in {} |-> File(0, 0, "")]
    ELSE ProfileFiles(Head(profs)) @@ Files(Tail(profs))

\* The configurations served: the profiles of the config file in name order
\* (a BTreeMap), then set_fallback with the default profile.
Setups ==
    { <<<<"test">>, "test">>,
      <<<<"production", "staging">>, "staging">> }

Configs(names) == [i \in 1..Len(names) |-> Config(names[i])]

InitWeb ==
    /\ op = "new"
    /\ \E s \in Setups : profiles = set_fallback(Configs(s[1]), s[2]).profiles
    /\ setup = NoSetup
    /\ disk = Files(profiles)
    /\ req = NoRequest
    /\ handled = NoResponse
    /\ rsp = NoResponse
    /\ prev = NoPrev
    /\ IdleDb
    /\ IdleParser
    /\ IdleTag
    /\ IdleCmp
    /\ IdleConc

Request(uri, header) == [uri |-> uri, if_none_match |-> header]

\* The If-None-Match headers a client sends with a request for uri: none
\* or, when it asks again for the target it last asked for, the ETag of the
\* response it has or an ETag no response carried.
Headers(uri) ==
    IF uri = req.uri THEN {None, rsp.etag, Some(ETag("0.0"))} ELSE {None}

\* The state after app.call(rq).  prev keeps, of a request that carries
\* If-None-Match, the response it was made after; fresh tells that no file
\* was written since that response.
Served(rq, answer) ==
    /\ req' = rq
    /\ handled' = answer.handled
    /\ rsp' = answer.rsp
    /\ prev' = IF rq.if_none_match = None THEN NoPrev
               ELSE [uri |-> req.uri, etag |-> rsp.etag, fresh |-> op # "touch"]
    /\ UNCHANGED <<profiles, setup, disk, dbVars, parserVars, tagVars, cmpVars, concVars>>

RootUris ==
    { "/", "/index.html", "/?query=langtags", "/index.html?query=langtags&ext=json",
      "/index.html?query=langtags&ext=json&staging=1", "/?query=alltags",
      "/?query=tags", "/?staging=0&production=yes", "/?staging=1&staging=0",
      "/?staging&query=langtags", "/?query=langtags&production=off&staging=on",
      "/?query=bogus", "/?_ws_id=eka", "/?production=1&staging=1",
      "/?production=1&production=0", "/?production=OFF&test=1" }
LangtagsUris ==
    { "/langtags.json", "/langtags.txt", "/langtags.json?test=1",
      "/langtags.json?staging", "/langtags.json?staging=1", "/langtags.csv" }
WritingSystemUris ==
    { "/eka-NG-x-ekajuk", "/eka-Latn-NG-x-ekajuk", "/thv-DZ-x-ahaggar", "/en-KP",
      "/eka", "/eka?staging=1", "/eka?revid=c0ffee", "/eka?ext=json", "/frm",
      "/frm?query=tags", "/frm-BE?query=tags", "/thv?query=tags",
      "/aa?query=tags", "/en?query=tags", "/frm?query=langtags", "/e",
      "/eka?revid=0ld", "/eka?revid=%22c0ffee%22", "/eka?revid=c0+ffee",
      "/aa?flatten=0" }
UnmatchedUris ==
    { "/a/b", "/a/b?query=langtags", "/a/b?query=alltags", "/a/b?query=tags",
      "/eka/", "/a/b?query=bogus" }

\* One action per route of fn app.
GetRoot ==
    \E uri \in RootUris : \E header \in Headers(uri) :
        /\ route(uri_path(uri)) = "root"
        /\ op' = "root"
        /\ Served(Request(uri, header), app_root(profiles, Request(uri, header)))

GetLangtags ==
    \E uri \in LangtagsUris : \E header \in Headers(uri) :
        /\ route(uri_path(uri)) = "langtags"
        /\ op' = "langtags"
        /\ Served(Request(uri, header),
                  app_langtags(profiles, disk, Request(uri, header)))

GetWritingSystem ==
    \E uri \in WritingSystemUris : \E header \in Headers(uri) :
        /\ route(uri_path(uri)) = "ws_id"
        /\ op' = "ws_id"
        /\ Served(Request(uri, header),
                  app_ws_id(profiles, disk, Request(uri, header), CorpusDb))

GetStatus ==
    \E header \in Headers("/status") :
        /\ route("/status") = "status"
        /\ op' = "status"
        /\ Served(Request("/status", header), app_status(profiles, CorpusDb))

GetUnmatched ==
    \E uri \in UnmatchedUris : \E header \in Headers(uri) :
        /\ route(uri_path(uri)) = "fallback"
        /\ op' = "fallback"
        /\ Served(Request(uri, header), app_fallback(Request(uri, header)))

\* The data of the fallback profile is deployed again: its langtags.json
\* and eka.xml get a new modification time, and eka.xml a new revid.
Touched(file) ==
    File(file.modified + 1, file.len, IF file.revid = "" THEN "" ELSE file.revid \o "1")
Deployed(cfg) ==
    {cfg.langtags_dir \o "/langtags.json", cfg.sldr_dir \o "/flat/e/eka.xml"}
Touch ==
    /\ disk = Files(profiles)
    /\ disk' = [path \in DOMAIN disk |->
                    IF path \in Deployed(fallback(profiles))
                    THEN Touched(disk[path]) ELSE disk[path]]
    /\ op' = "touch"
    /\ UNCHANGED <<profiles, setup, req, handled, rsp, prev,
                   dbVars, parserVars, tagVars, cmpVars, concVars>>

NextWeb ==
    \/ GetRoot
    \/ GetLangtags
    \/ GetWritingSystem
    \/ GetStatus
    \/ GetUnmatched
    \/ Touch

SpecWeb == InitWeb /\ [][NextWeb]_vars


\* The request has no revid parameter (which revid::converter would turn
\* into an If-None-Match header of its own).
NoRevid == field(query_pairs(req.uri), "revid") = None

\* C14: a request that asks again for a resource whose response carried an
\* ETag, presenting that ETag in If-None-Match while no file changed in
\* between, is answered 304 Not Modified with no body; a request without
\* If-None-Match, or with one that does not match the handler's ETag, gets
\* the handler's response unchanged.
C14_NotModifiedWithoutBody ==
    NoRevid =>
        /\ (/\ prev # NoPrev
            /\ prev.etag # None
            /\ prev.fresh
            /\ req.if_none_match = prev.etag)
              => rsp.status = 304 /\ rsp.body = <<>>
        /\ (/\ req # NoRequest
            /\ \/ req.if_none_match = None
               \/ handled.etag = None
               \/ req.if_none_match[1].tag # handled.etag[1].tag)
              => rsp = handled


\* The routes fn app puts under the profile_selector layer.
Selecting == op \in {"root", "langtags", "ws_id"}

\* The indices of the profiles whose name is a parameter of the request's
\* query string with a truthy value, a repeated parameter counting with its
\* last value.
TruthyProfiles ==
    LET pairs == query_pairs(req.uri)
        Occurrences(name) == {k \in 1..Len(pairs) : pairs[k][1] = name}
        Truthy(value) == value \notin {"", "0", "no", "false", "off"}
    IN {i \in 1..Len(profiles) :
           /\ Occurrences(profiles[i].name) # {}
           /\ Truthy(pairs[Max(Occurrences(profiles[i].name))][2])}

-----------------------------------------------------------------------------
(* Profiles::set_fallback on the collection read from a config file. *)

\* The profile names of a config file; from_reader collects them from a
\* BTreeMap, that is in this order.
ProfileNames == <<"development", "production", "staging", "test">>

SortedConfigs(chosen) ==
    Configs(SelectSeq(ProfileNames, LAMBDA name : name \in chosen))

InitProfiles ==
    /\ op = "new"
    /\ \E chosen \in (SUBSET Range(ProfileNames)) \ {{}} : profiles = SortedConfigs(chosen)
    /\ setup = NoSetup
    /\ disk = <<>>
    /\ req = NoRequest
    /\ handled = NoResponse
    /\ rsp = NoResponse
    /\ prev = NoPrev
    /\ IdleDb
    /\ IdleParser
    /\ IdleTag
    /\ IdleCmp
    /\ IdleConc

\* profiles.set_fallback(name): the collection is moved into the call; Ok
\* gives it back, Err keeps nothing of it.
SetFallback ==
    \E name \in Range(ProfileNames) \cup {"dummy"} :
        LET Returned(res) ==
                /\ profiles' = res.profiles
                /\ setup' = [result |-> IF res.ok THEN "Ok" ELSE "Err", name |-> name,
                             before |-> profiles, message |-> res.message]
        IN /\ profiles # <<>>
           /\ op' = "set_fallback"
           /\ Returned(set_fallback(profiles, name))
           /\ UNCHANGED <<disk, req, handled, rsp, prev,
                          dbVars, parserVars, tagVars, cmpVars, concVars>>

NextProfiles == SetFallback

SpecProfiles == InitProfiles /\ [][NextProfiles]_vars

\* The position of the profile called name in a collection, 0 when absent.
PositionOf(profs, name) ==
    IF \E i \in 1..Len(profs) : profs[i].name = name
    THEN CHOOSE i \in 1..Len(profs) : profs[i].name = name
    ELSE 0

\* C16: set_fallback(name) returns the error
\* default profile "<name>" not in config when no profile has that name;
\* otherwise the named profile is first afterwards (fallback() is it), the
\* collection holds the same profiles, and the other profiles keep their
\* relative order.
C16_SetFallbackMovesToFront ==
    op = "set_fallback" =>
        IF PositionOf(setup.before, setup.name) = 0
        THEN /\ setup.result = "Err"
             /\ setup.message = "default profile \"" \o setup.name \o "\" not in config"
        ELSE /\ setup.result = "Ok"
             /\ fallback(profiles).name = setup.name
             /\ Len(profiles) = Len(setup.before)
             /\ Range(profiles) = Range(setup.before)
             /\ \A a, b \in Range(setup.before) :
                   (/\ a.name # setup.name
                    /\ b.name # setup.name
                    /\ PositionOf(setup.before, a.name) < PositionOf(setup.before, b.name))
                      => PositionOf(profiles, a.name) < PositionOf(profiles, b.name)


\* The row a writing-system request resolves to: full tag as text, or "" when
\* its tag does not parse or does not resolve.
ResolvedRow(uri) ==
    LET ws == from_str(SliceFrom(uri_path(uri), 1))
        Row(idx) == IF idx = None THEN "" ELSE to_string(CorpusDb.tagsets[idx[1]].full)
    IN IF ws = None THEN "" ELSE Row(orthographic_normal_form(CorpusDb, ws[1]))

\* C17: with the test corpus, GET /eka-NG-x-ekajuk resolves to the row whose
\* full tag is eka-Latn-NG-x-ekajuk and is answered 200 with the file
\* eka_Latn_NG_x_ekajuk.xml; GET /en-KP is answered 404 (the handler's
\* response, before a matching If-None-Match turns its status into 304).
C17_EkajukRowAndFile ==
    /\ (op = "ws_id" /\ req.uri = "/eka-NG-x-ekajuk")
          => /\ ResolvedRow(req.uri) = "eka-Latn-NG-x-ekajuk"
             /\ handled.status = 200
             /\ handled.body = <<"file", Config(handled.profile[1]).sldr_dir
                                        \o "/flat/e/eka_Latn_NG_x_ekajuk.xml">>
             /\ handled.filename = "eka_Latn_NG_x_ekajuk.xml"
    /\ (op = "ws_id" /\ req.uri = "/en-KP") => handled.status = 404


\* The lines the listing of a row is made of, written from the texts of the
\* row's iter() tags: these texts; for each alternate region the texts of the
\* tags that have a region, with that region in its place; then, for the
\* first set and each region set in turn, one set per variant with "-" and
\* the variant appended to each text.
ListingOf(ts) ==
    LET base == [i \in 1..Len(iter(ts)) |-> to_string(iter(ts)[i])]
        regional == SelectSeq(iter(ts), LAMBDA t : region(t) # None)
        InRegion(t, r) ==
            Slice(t.buf, 0, t.end.region - Len(region(t)[1])) \o r
                \o SliceFrom(t.buf, t.end.region)
        region_lines ==
            [k \in 1..Len(ts.regions) |->
                [i \in 1..Len(regional) |-> InRegion(regional[i], ts.regions[k])]]
        prototypes == <<base>> \o region_lines
        n == Len(ts.variants)
        variant_lines ==
            [k \in 1..(Len(prototypes) * n) |->
                [i \in 1..Len(prototypes[((k - 1) \div n) + 1]) |->
                    prototypes[((k - 1) \div n) + 1][i] \o "-"
                        \o ts.variants[((k - 1) % n) + 1]]]
        sets == prototypes \o variant_lines
    IN join([k \in 1..Len(sets) |-> join(sets[k], "=")], "\n")

\* The request reached fn demux_writing_system with query=tags.
TagsQuery ==
    /\ op = "ws_id"
    /\ field(query_pairs(req.uri), "query") = Some("tags")
    /\ handled.status \notin {400, 422}

\* C18: GET /{ws_id}?query=tags is answered 404 when the tag does not resolve
\* and otherwise 200 with the newline-joined lines (no trailing newline) of
\* the row: its iter() tags joined by "=", one line per alternate region, one
\* line per variant for the first set and then for each region set; for frm
\* these are the four lines frm=frm-FR=frm-Latn=frm-Latn-FR,
\* frm-BE=frm-Latn-BE, frm-1606nict=..., frm-BE-1606nict=frm-Latn-BE-1606nict.
C18_TagsListing ==
    TagsQuery =>
        LET idx == orthographic_normal_form(CorpusDb,
                                            from_str(SliceFrom(uri_path(req.uri), 1))[1])
        IN /\ idx = None => handled.status = 404
           /\ idx # None =>
                 /\ handled.status = 200
                 /\ handled.body = <<"text", ListingOf(CorpusDb.tagsets[idx[1]])>>
           /\ req.uri = "/frm?query=tags" =>
                 handled.body =
                     <<"text",
                       "frm=frm-FR=frm-Latn=frm-Latn-FR\n"
                         \o "frm-BE=frm-Latn-BE\n"
                         \o "frm-1606nict=frm-FR-1606nict=frm-Latn-1606nict=frm-Latn-FR-1606nict\n"
                         \o "frm-BE-1606nict=frm-Latn-BE-1606nict">>

\* The listing of frm, a row with an alternate region and a variant, was
\* served.
C18_Witness ==
    /\ TagsQuery
    /\ req.uri = "/frm?query=tags"
    /\ handled.status = 200
    /\ \E k \in 1..Len(CorpusDb.tagsets) :
          /\ CorpusDb.tagsets[k].regions # <<>>
          /\ CorpusDb.tagsets[k].variants # <<>>
          /\ handled.body = <<"text", ListingOf(CorpusDb.tagsets[k])>>


\* The value of a query parameter of the request, or the default.
ParamOr(name, default_value) ==
    LET value == field(query_pairs(req.uri), name)
    IN IF value = None THEN default_value ELSE value[1]

\* C19: GET / or /index.html with query=langtags is answered 308 with
\* Location /langtags.<ext>?<profile>=1, ext being the ext parameter (txt by
\* default) and profile the name of the profile selected for the request;
\* query=alltags is answered 404, query=tags 400, and a request without a
\* query parameter 200 with the static help page.
C19_HelpOrRedirect ==
    op = "root" =>
        /\ ParamOr("query", "") = "langtags" =>
              /\ rsp.status = 308
              /\ rsp.location = "/langtags." \o ParamOr("ext", "txt") \o "?"
                                   \o rsp.profile[1] \o "=1"
        /\ ParamOr("query", "") = "alltags" => rsp.status = 404
        /\ ParamOr("query", "") = "tags" => rsp.status = 400
        /\ field(query_pairs(req.uri), "query") = None =>
              rsp.status = 200 /\ rsp.body = <<"html", "index.html">>


\* The request for / with the query string of the request.
RootRequest ==
    Request((IF uri_query(req.uri) = None THEN "/" ELSE "/?" \o uri_query(req.uri)[1]),
            req.if_none_match)

\* C20: a request whose path matches no route is handled exactly like a
\* request to /: a profile is attached before the help/redirect handler runs,
\* so the answer is the help page (200), the 308 redirect for query=langtags,
\* 404 for query=alltags or 400 for query=tags, and never an internal error
\* caused by a missing profile.
C20_UnmatchedLikeRoot ==
    op = "fallback" =>
        /\ rsp.profile # None
        /\ rsp.status # 500
        /\ rsp = app_root(profiles, RootRequest).rsp
        /\ ParamOr("query", "") = "langtags" => rsp.status = 308
        /\ ParamOr("query", "") = "alltags" => rsp.status = 404
        /\ ParamOr("query", "") = "tags" => rsp.status = 400
        /\ field(query_pairs(req.uri), "query") = None => rsp.status = 200


-----------------------------------------------------------------------------
(* Requests in flight at the same time.  A request is suspended at the await
   of next.run(req) in profile_selector, between the layer and the handler;
   Profiles, each Config and its LangTags are shared through Arc and borrowed
   immutably by every step. *)

MaxTasks == 2

NoTask == [uri |-> "", pc |-> "idle", extension |-> None, rsp |-> NoResponse]

ConcurrentUris ==
    { "/eka", "/eka?production=1", "/frm?query=tags", "/en-KP?production=1",
      "/eka?revid=c0ffee" }

\* A request that shared one extension slot with the other requests in
\* flight: it reads the profile of the first request that has one.
extension_of_shared_slot(ts, i) ==
    ts[CHOOSE k \in 1..Len(ts) :
          /\ ts[k].extension # None
          /\ \A j \in 1..(k - 1) : ts[j].extension = None].extension[1]

\* Extension(cfg): the Arc<Config> in the extensions of request i.
extension_of(ts, i) == ts[i].extension[1]

InitConcurrent ==
    /\ op = "new"
    /\ \E s \in Setups : profiles = set_fallback(Configs(s[1]), s[2]).profiles
    /\ setup = NoSetup
    /\ disk = Files(profiles)
    /\ req = NoRequest
    /\ handled = NoResponse
    /\ rsp = NoResponse
    /\ prev = NoPrev
    /\ ltdb = CorpusDb
    /\ request = default
    /\ ortho = NoOrtho
    /\ locale = NoLocale
    /\ tasks = [i \in 1..MaxTasks |-> NoTask]
    /\ IdleParser
    /\ IdleTag
    /\ IdleCmp

\* What every step of a request leaves alone.
Shared ==
    UNCHANGED <<profiles, setup, disk, req, handled, rsp, prev,
                dbVars, parserVars, tagVars, cmpVars>>

\* A request for /{ws_id} arrives.
Accept ==
    \E i \in 1..MaxTasks : \E uri \in ConcurrentUris :
        /\ tasks[i].pc = "idle"
        /\ route(uri_path(uri)) = "ws_id"
        /\ op' = "accept"
        /\ tasks' = [tasks EXCEPT ![i] = [NoTask EXCEPT !.uri = uri, !.pc = "accepted"]]
        /\ Shared

\* profile_selector up to next.run(req): the profile is inserted into the
\* extensions of the request.
Select ==
    \E i \in 1..MaxTasks :
        /\ tasks[i].pc = "accepted"
        /\ op' = "select"
        /\ tasks' = [tasks EXCEPT
                       ![i].extension = Some(profile_selector(profiles, tasks[i].uri)),
                       ![i].pc = "selected"]
        /\ Shared

\* The rest of the stack runs with the request's extensions.
Handle ==
    \E i \in 1..MaxTasks :
        /\ tasks[i].pc = "selected"
        /\ op' = "handle"
        /\ tasks' = [tasks EXCEPT
                       ![i].rsp = ws_id_service(disk, Request(tasks[i].uri, None),
                                                extension_of(tasks, i), ltdb).rsp,
                       ![i].pc = "done"]
        /\ Shared

NextConcurrent ==
    \/ Accept
    \/ Select
    \/ Handle

SpecConcurrent == InitConcurrent /\ [][NextConcurrent]_vars

-----------------------------------------------------------------------------
(* Toggle::from_str on the texts a query parameter can carry. *)

\* The spellings of a word in upper and lower case letters.
RECURSIVE Spellings(_)
Spellings(word) ==
    IF word = "" THEN {""}
    ELSE LET c == SubSeq(word, 1, 1)
             upper == IF IndexIn(LowerChars, c) > 0
                      THEN SubSeq(UpperChars, IndexIn(LowerChars, c), IndexIn(LowerChars, c))
                      ELSE c
         IN {first \o rest : first \in {c, upper},
                             rest \in Spellings(SubSeq(word, 2, Len(word)))}

ToggleTexts ==
    UNION {Spellings(word) :
              word \in {"", "0", "no", "false", "off", "1", "yes", "true", "on", "maybe",
                        "of", "offf", "00", "n0"}}

\* Toggle::default(), Toggle::ON and Toggle::OFF.
Toggle_default == FALSE
Toggle_ON == TRUE
Toggle_OFF == FALSE

InitToggle ==
    /\ op = "new"
    /\ input \in ToggleTexts
    /\ pieces = NoPieces
    /\ parsed = NoTag
    /\ result = None
    /\ IdleDb
    /\ IdleTag
    /\ IdleCmp
    /\ IdleWeb
    /\ IdleConc

\* input.parse::<Toggle>(); the Err type is Infallible.
ParseToggle ==
    /\ op = "new"
    /\ op' = "toggle"
    /\ result' = Some(Toggle_from_str(input))
    /\ UNCHANGED <<input, pieces, parsed, dbVars, tagVars, cmpVars, webVars, concVars>>

NextToggle == ParseToggle

SpecToggle == InitToggle /\ [][NextToggle]_vars

\* C22: Toggle::from_str(s) never fails and is true iff s, compared without
\* regard to ASCII case, is none of "", "0", "no", "false", "off"; the default
\* Toggle is false, ON is true and OFF is false.
C22_ToggleIgnoresCase ==
    /\ Toggle_default = FALSE
    /\ Toggle_ON = TRUE
    /\ Toggle_OFF = FALSE
    /\ op = "toggle" =>
          /\ result # None
          /\ result[1] = (to_ascii_lowercase(input) \notin {"", "0", "no", "false", "off"})


\* C23: every response to GET /status has status 200, carries the header
\* Cache-Control: no-store, and has as body the JSON document that lists, for
\* each configured profile, the api, the date and the number of tagsets of its
\* langtags, and sendfile when configured; the body is the same for every
\* request.
C23_StatusNoStore ==
    op = "status" =>
        /\ rsp.status = 200
        /\ rsp.cache_control = Some("no-store")
        /\ rsp.body[1] = "json"
        /\ DOMAIN rsp.body[2].profiles = {profiles[i].name : i \in 1..Len(profiles)}
        /\ \A i \in 1..Len(profiles) :
              /\ rsp.body[2].profiles[profiles[i].name].langtags
                    = [api |-> "1.3", date |-> "2023-02-20",
                       tagsets |-> Len(CorpusTexts)]
              /\ rsp.body[2].profiles[profiles[i].name].sendfile
                    = profiles[i].sendfile_method
        /\ rsp.body = app_status(profiles, CorpusDb).rsp.body


-----------------------------------------------------------------------------
(* Writing-system requests over the deployments of the LDML files of a row. *)

\* The file names find_ldml_file can try for the row eka-Latn-NG.
EkaFiles == {"eka.xml", "eka_Latn.xml", "eka_NG.xml", "eka_Latn_NG.xml"}

\* The files of the profiles with, of the files of that row, those in present.
Deployment(profs, present) ==
    LET eka(cfg) == {cfg.sldr_dir \o "/flat/e/" \o name : name \in EkaFiles}
        kept(cfg) == {cfg.sldr_dir \o "/flat/e/" \o name : name \in present}
        every == UNION {eka(profs[i]) : i \in 1..Len(profs)}
        there == UNION {kept(profs[i]) : i \in 1..Len(profs)}
    IN [path \in (DOMAIN Files(profs) \ every) \cup there |->
           IF path \in DOMAIN Files(profs) THEN Files(profs)[path] ELSE File(2, 80, "")]

InitFiles ==
    /\ op = "new"
    /\ \E s \in Setups : profiles = set_fallback(Configs(s[1]), s[2]).profiles
    /\ setup = NoSetup
    /\ \E present \in SUBSET EkaFiles : disk = Deployment(profiles, present)
    /\ req = NoRequest
    /\ handled = NoResponse
    /\ rsp = NoResponse
    /\ prev = NoPrev
    /\ IdleDb
    /\ IdleParser
    /\ IdleTag
    /\ IdleCmp
    /\ IdleConc

NextFiles == GetWritingSystem

SpecFiles == InitFiles /\ [][NextFiles]_vars

\* The request reached fn fetch_writing_system_ldml and asks for the flat
\* file: its tag parses and it has no query string.
PlainFetch ==
    /\ op = "ws_id"
    /\ uri_query(req.uri) = None
    /\ from_str(SliceFrom(uri_path(req.uri), 1)) # None

\* The paths find_ldml_file tries for row ts under the directory sldr, in
\* iter() order, written from the texts of the tags.
Candidates(ts, sldr) ==
    [i \in 1..Len(iter(ts)) |->
        sldr \o "/" \o SubSeq(lang(ts.full), 1, 1) \o "/"
             \o replace_dash(to_string(iter(ts)[i])) \o ".xml"]

\* C24: find_ldml_file gives None when the tag does not resolve to a row;
\* otherwise it gives, of the paths <sldr>/<first character of the row's
\* lang>/<tag text with _ for ->.xml of the row's iter() tags, the path of the
\* last tag in iter() order whose file exists, None when no such file exists,
\* and never a less specific file when a more specific candidate exists.
C24_MostSpecificFile ==
    PlainFetch =>
        LET idx == orthographic_normal_form(CorpusDb,
                                            from_str(SliceFrom(uri_path(req.uri), 1))[1])
            paths == Candidates(CorpusDb.tagsets[idx[1]],
                                Config(handled.profile[1]).sldr_dir \o "/flat")
            existing == {i \in 1..Len(paths) : paths[i] \in DOMAIN disk}
        IN IF idx = None \/ existing = {}
           THEN handled.status = 404
           ELSE /\ handled.status = 200
                /\ handled.body = <<"file", paths[Max(existing)]>>
                /\ \A j \in existing :
                      \E i \in existing : i >= j /\ handled.body = <<"file", paths[i]>>

\* The file of the full tag was chosen although the file of the most
\* abbreviated tag exists too.
C24_Witness ==
    /\ PlainFetch
    /\ req.uri = "/eka"
    /\ \E cfg \in Range(profiles) :
          /\ cfg.sldr_dir \o "/flat/e/eka.xml" \in DOMAIN disk
          /\ handled.body = <<"file", cfg.sldr_dir \o "/flat/e/eka_Latn_NG.xml">>


-----------------------------------------------------------------------------
(* The revid query parameter of /{ws_id} (etag::revid::converter outside   *)
(* etag::layer outside the handler).                                       *)

\* The revid parameter of a request target, None when it has none.
Revid(uri) == field(query_pairs(uri), "revid")

\* What the /{ws_id} handler answers a request for the same path that carries
\* neither a revid nor an If-None-Match header.
NormalResponse ==
    app_ws_id(profiles, disk, Request(uri_path(req.uri), None), CorpusDb).rsp

\* C25: a /{ws_id} request whose only parameter is revid=<token> reaches the
\* handler as the same request with If-None-Match: "<token>": it is answered
\* 304 when the token is the entity tag of the handler's response, with the
\* handler's normal response when it is another tag, and with 422, the
\* handler not being called, when the token cannot form an entity tag.
C25_RevidBecomesIfNoneMatch ==
    (op = "ws_id" /\ Revid(req.uri) # None /\ Len(query_pairs(req.uri)) = 1) =>
        IF ~entity_tag_valid(Revid(req.uri)[1])
        THEN rsp.status = 422 /\ handled = rsp /\ rsp.body = <<>> /\ rsp.etag = None
        ELSE /\ handled = NormalResponse
             /\ IF NormalResponse.etag = Some(ETag(Revid(req.uri)[1]))
                THEN rsp.status = 304
                ELSE rsp = NormalResponse

\* A revid equal to the file's revision is answered 304 without any header.
C25_Witness ==
    /\ op = "ws_id" /\ req = Request("/eka?revid=c0ffee", None)
    /\ handled.status = 200 /\ rsp.status = 304

=============================================================================
